---- MODULE Spec2Model ----
(***************************************************************************)
(* Model of NessusReportGenerator (src/nessus.py): the pipeline            *)
(*   load_data -> clean_data -> generate_summary -> views                  *)
(* over a pandas DataFrame, and of its two callers, main (src/nessus.py)   *)
(* and the generate handler (src/web_app.py).                              *)
(*                                                                         *)
(* Representation.                                                         *)
(*  - A string is a sequence of atoms.  An atom is the TLA+ string of one  *)
(*    character (" ", "\n", "\"", "a", "9", ".") or of one whole word that *)
(*    neither starts nor ends with whitespace and holds no double quote    *)
(*    ("Nessus Scan Information", "hostA", "nan").                         *)
(*  - A cell of the frame is a string, or NaN/None.  A cell of a numeric    *)
(*    column is held as the text str() gives its value ('5.0' for the      *)
(*    float 5.0, '443' for the int 443).  NaN is the empty                 *)
(*    sequence: pd.read_csv turns an empty field into NaN and, after       *)
(*    astype(str).str.strip(), line 106 turns '' into None, so a frame     *)
(*    never has to tell '' from NaN in the columns where both could occur  *)
(*    (text, Risk and Host cells are always str after clean_data; there    *)
(*    the empty sequence is the empty str).                                *)
(*  - A row of the frame is [idx, cells, cvss]: idx is the pandas index    *)
(*    label (the position of the record in the file), cells maps a column  *)
(*    name to a cell, cvss is the CVSS_Score column: <<>> for NaN, <<n>>   *)
(*    for the float n/10.                                                  *)
(*  - pandas semantics are those of pandas >= 2.0 (read_csv reads the      *)
(*    field None as NaN; Series.replace('', None) puts None).              *)
(***************************************************************************)
EXTENDS Integers, Sequences, FiniteSets, TLC

VARIABLES
  csv_file,      \* self.csv_file: the input file
  df,            \* self.df
  columns,       \* self.df.columns
  pc,            \* how far the generator has got
  detailed,      \* what create_detailed_report gave last
  attempts,      \* the encodings load_data has tried
  summary_stats, \* self.summary_stats
  executive,     \* what create_executive_summary gave last
  host_summary,  \* what create_host_summary gave last
  tie_order,     \* how this build's value_counts orders keys of equal count
  run,           \* the caller (main or the generate handler) at work
  batch          \* the generators of one batch of uploaded files

vars ==
  <<csv_file, df, columns, pc, detailed, attempts, summary_stats, executive,
    host_summary, tie_order, run, batch>>

----------------------------------------------------------------------------
(* Bounds of the model *)

\* largest number of records in an input file
MaxRows == 3

----------------------------------------------------------------------------
(* Strings *)

NaN == <<>>

IsWhitespace(a) == a \in {" ", "\n", "\t"}

RECURSIVE LStrip(_)
LStrip(s) ==
  IF s = <<>> THEN <<>>
  ELSE IF IsWhitespace(Head(s)) THEN LStrip(Tail(s)) ELSE s

RECURSIVE RStrip(_)
RStrip(s) ==
  IF s = <<>> THEN <<>>
  ELSE IF IsWhitespace(s[Len(s)]) THEN RStrip(SubSeq(s, 1, Len(s) - 1)) ELSE s

\* str.strip(): whitespace removed at both ends
Strip(s) == RStrip(LStrip(s))

\* str.replace(old, ''): every occurrence of the one-character string old removed
RemoveChar(s, old) == SelectSeq(s, LAMBDA a : a # old)

\* astype(str) of one cell: NaN becomes the string 'nan'
AsStr(cell) == IF cell = NaN THEN <<"nan">> ELSE cell

\* isna() of one cell
IsNa(cell) == cell = NaN

----------------------------------------------------------------------------
(* pd.to_numeric(..., errors='coerce') of one cell; the floats are held in *)
(* tenths.  The grammar covered is digits, optionally followed by '.' and  *)
(* one digit; every other string of the input domain is not a number.      *)

DigitValue ==
  [c \in {"0", "1", "2", "3", "4", "5", "6", "7", "8", "9"} |->
     CASE c = "0" -> 0 [] c = "1" -> 1 [] c = "2" -> 2 [] c = "3" -> 3
       [] c = "4" -> 4 [] c = "5" -> 5 [] c = "6" -> 6 [] c = "7" -> 7
       [] c = "8" -> 8 [] c = "9" -> 9]

IsDigits(s) == s # <<>> /\ \A i \in 1..Len(s) : s[i] \in DOMAIN DigitValue

RECURSIVE DigitsValue(_)
DigitsValue(s) ==
  IF s = <<>> THEN 0
  ELSE 10 * DigitsValue(SubSeq(s, 1, Len(s) - 1)) + DigitValue[s[Len(s)]]

ToNumeric(cell) ==
  IF IsDigits(cell) THEN <<10 * DigitsValue(cell)>>
  ELSE IF /\ Len(cell) >= 3
          /\ cell[Len(cell) - 1] = "."
          /\ IsDigits(SubSeq(cell, 1, Len(cell) - 2))
          /\ cell[Len(cell)] \in DOMAIN DigitValue
       THEN <<10 * DigitsValue(SubSeq(cell, 1, Len(cell) - 2))
               + DigitValue[cell[Len(cell)]]>>
       ELSE <<>>

----------------------------------------------------------------------------
(* Columns *)

customer_columns ==
  <<"Host", "Port", "Protocol", "Name", "Risk", "CVSS v3.0 Base Score",
    "CVSS v2.0 Base Score", "CVE", "Synopsis", "Description", "Solution">>

AllColumns == {customer_columns[i] : i \in DOMAIN customer_columns}

text_columns == <<"Name", "Synopsis", "Description", "Solution", "CVE">>

valid_risks == {<<"Low">>, <<"Medium">>, <<"High">>, <<"Critical">>}

informational_filters ==
  { <<"Nessus Scan Information">>,
    <<"Traceroute Information">>,
    <<"Service Detection">>,
    <<"Nessus SYN scanner">>,
    <<"OS Identification">>,
    <<"Device Type">>,
    <<"Common Platform Enumeration">>,
    <<"Target Credential Status">>,
    <<"OS Security Patch Assessment Not Available">> }

----------------------------------------------------------------------------
(* The input domain: the files the generator is constructed on *)

Rec(f) == [c \in AllColumns |-> IF c \in DOMAIN f THEN f[c] ELSE <<>>]

Finding(host, name, risk, v3, v2) ==
  Rec("Host" :> host @@ "Name" :> name @@ "Risk" :> risk
        @@ "CVSS v3.0 Base Score" :> v3 @@ "CVSS v2.0 Base Score" :> v2)

\* the records a file is made of (the fields as the CSV parser delivers them,
\* before its NaN detection)
RawRecords ==
  { Finding(<<"hostA">>, <<"SQLi">>, <<"Critical">>, <<"9", ".", "8">>, <<"5">>),
    Finding(<<"hostB">>, <<"SQLi">>, <<"Critical">>, <<"9", ".", "1">>, <<>>),
    Finding(<<"hostB">>, <<"Weak">>, <<" ", "High", " ">>,
            <<"a", "b">>, <<"6", ".", "5">>),
    Finding(<<"hostC">>, <<"Info">>, <<"None">>, <<>>, <<>>),
    Finding(<<"hostA">>, <<"Nessus Scan Information">>, <<"Critical">>,
            <<>>, <<>>),
    Finding(<<"hostB">>, <<" ", "Nessus Scan Information", " ">>, <<"High">>,
            <<"a">>, <<"b">>),
    Finding(<<>>, <<"\"", " ", "foo", " ", "\"">>, <<"Low">>,
            <<" ">>, <<"7", ".", "0">>),
    [ Finding(<<" ", "hostC">>, <<>>, <<"High">>, <<>>, <<>>)
        EXCEPT !["Description"] = <<" ", "\"", "a", "\n", "\n", "b", "\"", " ">>,
               !["Solution"] = <<"\"", "\"">> ],
    Finding(<<"hostC">>, <<"SQLi">>, <<"high">>, <<"9", ".", "1">>, <<>>),
    Finding(<<>>, <<>>, <<>>, <<>>, <<>>) }

\* the header rows: each column name as the file spells it
Padded(c) == <<" ", c, " ">>

Headers ==
  { {<<c>> : c \in AllColumns},
    {IF c = "Risk" THEN Padded(c) ELSE <<c>> : c \in AllColumns},
    {<<c>> : c \in AllColumns \ {"Risk"}},
    {<<c>> : c \in AllColumns \ {"Host"}},
    {<<c>> : c \in AllColumns \ {"CVSS v3.0 Base Score"}},
    {<<c>> : c \in AllColumns \ {"CVSS v3.0 Base Score", "CVSS v2.0 Base Score"}},
    {<<c>> : c \in AllColumns \ {"Name"}} }

\* the sequences over S of length n or less
SeqsUpTo(S, n) == UNION {[1..k -> S] : k \in 0..n}

\* a record as a file with header h holds it: no field for a column the
\* header lacks
InFile(rec, h) ==
  [c \in AllColumns |-> IF \E x \in h : Strip(x) = <<c>> THEN rec[c] ELSE <<>>]

\* mutant: latin-1 is tried before utf-8
encodings_Latin1First == <<"latin-1", "utf-8", "cp1252">>

encodings == <<"utf-8", "latin-1", "cp1252">>

\* what pd.read_csv does with a file under one encoding
ReadOutcomes == {"ok", "UnicodeDecodeError", "ParserError"}

\* a file every encoding reads
ReadsAll == [e \in {encodings[k] : k \in DOMAIN encodings} |-> "ok"]

\* the file with header h and records q that reads as rd tells
CsvFileAs(h, q, rd) ==
  [header |-> h, records |-> [i \in DOMAIN q |-> InFile(q[i], h)], reads |-> rd]

CsvFile(h, q) == CsvFileAs(h, q, ReadsAll)

----------------------------------------------------------------------------
(* load_data *)

\* the fields pd.read_csv reads as NaN (pandas STR_NA_VALUES, as far as the
\* input domain goes)
STR_NA_VALUES == {<<>>, <<"None">>, <<"nan">>, <<"NaN">>, <<"N/A">>, <<"NULL">>}

\* the dtype pd.read_csv infers for a column: int64 when every field is a
\* whole number, float64 when every field is a number or missing and some
\* field is missing or not whole, object otherwise (and for a file without
\* a record, where there is nothing to infer from)
Dtype(file, col) ==
  LET fields == {file.records[i][col] : i \in DOMAIN file.records}
      present == fields \ STR_NA_VALUES
  IN  IF fields = {} \/ \E x \in present : ToNumeric(x) = <<>> THEN "object"
      ELSE IF present = fields /\ \A x \in present : IsDigits(x) THEN "int64"
      ELSE "float64"

\* str() of the float a field is read as
FloatText(cell) == IF IsDigits(cell) THEN cell \o <<".", "0">> ELSE cell

\* pd.read_csv: one frame row per record, indexed 0, 1, ...; a column the
\* header lacks has no cells (held as NaN and never read).  A cell of an
\* object or int64 column is the text of the file, a cell of a float64
\* column the text of the float.
ReadCsv(file) ==
  LET names == {Strip(h)[1] : h \in file.header}
      floats == {c \in names : Dtype(file, c) = "float64"}
  IN  [i \in 1..Len(file.records) |->
         [idx |-> i - 1,
          cells |-> [c \in AllColumns |->
                       IF c \in names /\ file.records[i][c] \notin STR_NA_VALUES
                       THEN IF c \in floats THEN FloatText(file.records[i][c])
                            ELSE file.records[i][c]
                       ELSE NaN],
          cvss |-> <<>>]]

\* self.df.columns.str.strip()
StripColumns(header) == {Strip(h)[1] : h \in header}

\* mutant: the denylist filter left out
FilterInformational_Keep(d) == d

\* self.df[~self.df['Name'].isin(informational_filters)]
FilterInformational(d) ==
  SelectSeq(d, LAMBDA r : r.cells["Name"] \notin informational_filters)

\* the encodings the loop of load_data goes through on a file: each one in
\* turn until a read does not raise UnicodeDecodeError
RECURSIVE TriedFrom(_, _)
TriedFrom(file, k) ==
  IF k > Len(encodings) THEN <<>>
  ELSE IF file.reads[encodings[k]] = "UnicodeDecodeError"
       THEN <<encodings[k]>> \o TriedFrom(file, k + 1)
       ELSE <<encodings[k]>>

Tried(file) == TriedFrom(file, 1)

\* the loop has left a frame in self.df
Decoded(file) == file.reads[Tried(file)[Len(Tried(file))]] = "ok"

\* the frame and the columns load_data leaves, and whether it returns True
LoadResult(file) ==
  LET d == ReadCsv(file)
      cols == StripColumns(file.header)
  IN  IF ~Decoded(file)
      THEN \* ValueError (no encoding), or the parser's own exception
           [df |-> <<>>, columns |-> {}, ok |-> FALSE]
      ELSE IF "Name" \in cols
           THEN [df |-> FilterInformational(d), columns |-> cols, ok |-> TRUE]
           ELSE \* KeyError on self.df['Name'], caught: return False
                [df |-> d, columns |-> cols, ok |-> FALSE]

\* the call generator.load_data()
LoadDataCall ==
  /\ pc = "new"
  /\ LET res == LoadResult(csv_file)
     IN  /\ df' = res.df
         /\ columns' = res.columns
         /\ pc' = IF res.ok THEN "loaded" ELSE "load_failed"
  /\ attempts' = Tried(csv_file)
  /\ UNCHANGED <<csv_file, detailed, summary_stats, executive, host_summary,
                 tie_order, batch>>

LoadData == LoadDataCall /\ UNCHANGED run

----------------------------------------------------------------------------
(* clean_data *)

\* self.df.dropna(how='all')
DropNaAll(d, cols) ==
  SelectSeq(d, LAMBDA r : \E c \in cols : ~IsNa(r.cells[c]))

\* .astype(str).str.strip().str.replace('"', '')
CleanText(cell) == RemoveChar(Strip(AsStr(cell)), "\"")

TextColumnSet == {text_columns[i] : i \in DOMAIN text_columns}

CleanTextColumns(d, cols) ==
  [i \in DOMAIN d |->
     [d[i] EXCEPT !.cells =
        [c \in AllColumns |->
           IF c \in TextColumnSet /\ c \in cols
           THEN CleanText(d[i].cells[c]) ELSE d[i].cells[c]]]]

\* one column through .astype(str).str.strip()
StripColumn(d, col) ==
  [i \in DOMAIN d |->
     [d[i] EXCEPT !.cells[col] = Strip(AsStr(d[i].cells[col]))]]

\* mutant: the earlier policy, which drops only the label 'None'
IsValidRisk_NotNone(cell) == cell # <<"None">>

\* self.df[self.df['Risk'].isin(valid_risks)]
IsValidRisk(cell) == cell \in valid_risks

\* mutant: the labels compared without being trimmed
CleanRisk_NoStrip(d, cols) ==
  IF "Risk" \in cols
  THEN SelectSeq(d, LAMBDA r : IsValidRisk(r.cells["Risk"]))
  ELSE d

\* mutant: no finding is dropped for its severity
CleanRisk_KeepAll(d, cols) == d

CleanRisk(d, cols) ==
  IF "Risk" \in cols
  THEN SelectSeq(StripColumn(d, "Risk"), LAMBDA r : IsValidRisk(r.cells["Risk"]))
  ELSE d

\* .astype(str).str.strip(), then '' replaced by None (None is <<>>, so the
\* replacement leaves the representation as it is)
CleanCvssColumn(d, cols, col) ==
  IF col \in cols THEN StripColumn(d, col) ELSE d

CleanHost(d, cols) ==
  IF "Host" \in cols THEN StripColumn(d, "Host") ELSE d

\* mutant: the fallback taken only where the v3.0 cell itself is missing
CombinedScore_MissingOnly(cells, cols) ==
  IF "CVSS v3.0 Base Score" \in cols /\ ~IsNa(cells["CVSS v3.0 Base Score"])
  THEN ToNumeric(cells["CVSS v3.0 Base Score"])
  ELSE IF "CVSS v2.0 Base Score" \in cols
       THEN ToNumeric(cells["CVSS v2.0 Base Score"])
       ELSE <<>>

\* CVSS_Score of one row: to_numeric of v3.0, and where that is NaN
\* to_numeric of v2.0
CombinedScore(cells, cols) ==
  LET s3 == IF "CVSS v3.0 Base Score" \in cols
            THEN ToNumeric(cells["CVSS v3.0 Base Score"]) ELSE <<>>
  IN  IF "CVSS v2.0 Base Score" \in cols /\ s3 = <<>>
      THEN ToNumeric(cells["CVSS v2.0 Base Score"])
      ELSE s3

DeriveScore(d, cols) ==
  [i \in DOMAIN d |-> [d[i] EXCEPT !.cvss = CombinedScore(d[i].cells, cols)]]

CleanedFrame(d, cols) ==
  LET d1 == DropNaAll(d, cols)
      d2 == CleanTextColumns(d1, cols)
      d3 == CleanRisk(d2, cols)
      d4 == CleanCvssColumn(d3, cols, "CVSS v2.0 Base Score")
      d5 == CleanCvssColumn(d4, cols, "CVSS v3.0 Base Score")
      d6 == CleanHost(d5, cols)
  IN  DeriveScore(d6, cols)

\* the call generator.clean_data()
CleanDataCall ==
  /\ pc = "loaded"
  /\ df' = CleanedFrame(df, columns)
  /\ columns' = columns \cup {"CVSS_Score"}
  /\ pc' = "cleaned"
  /\ UNCHANGED <<csv_file, detailed, attempts, summary_stats, executive,
                 host_summary, tie_order, batch>>

CleanData == CleanDataCall /\ UNCHANGED run

----------------------------------------------------------------------------
(* create_detailed_report *)

risk_order == <<<<"Critical">>, <<"High">>, <<"Medium">>, <<"Low">>, <<"None">>>>

\* the code of a Risk cell in pd.Categorical(..., categories=risk_order): its
\* place in risk_order; a value outside the categories is NaN, which
\* na_position='last' sorts behind every category
RiskCode(cell) ==
  IF \E k \in DOMAIN risk_order : risk_order[k] = cell
  THEN CHOOSE k \in DOMAIN risk_order : risk_order[k] = cell
  ELSE Len(risk_order) + 1

\* mutant: CVSS_Score ascending
ScoreBefore_Ascending(a, b) ==
  \/ a # <<>> /\ b = <<>>
  \/ a # <<>> /\ b # <<>> /\ a[1] < b[1]

\* CVSS_Score descending, NaN last: a sorts strictly before b
ScoreBefore(a, b) ==
  \/ a # <<>> /\ b = <<>>
  \/ a # <<>> /\ b # <<>> /\ a[1] > b[1]

\* sort_values(['Risk', 'CVSS_Score'], ascending=[True, False],
\* na_position='last'): row a sorts strictly before row b
SortsBefore(a, b) ==
  \/ RiskCode(a.cells["Risk"]) < RiskCode(b.cells["Risk"])
  \/ /\ RiskCode(a.cells["Risk"]) = RiskCode(b.cells["Risk"])
     /\ ScoreBefore(a.cvss, b.cvss)

\* mutant: an unstable sort, r put in front of the rows with its keys
RECURSIVE InsertRow_Unstable(_, _)
InsertRow_Unstable(r, s) ==
  IF s = <<>> THEN <<r>>
  ELSE IF ~SortsBefore(Head(s), r) THEN <<r>> \o s
       ELSE <<Head(s)>> \o InsertRow_Unstable(r, Tail(s))

\* r put into the sorted sequence s behind every row that does not sort
\* strictly after it
RECURSIVE InsertRow(_, _)
InsertRow(r, s) ==
  IF s = <<>> THEN <<r>>
  ELSE IF SortsBefore(r, Head(s)) THEN <<r>> \o s
       ELSE <<Head(s)>> \o InsertRow(r, Tail(s))

\* the stable sort of pandas (lexsort_indexer): rows with equal keys keep
\* the order they have in d
RECURSIVE SortValues(_)
SortValues(d) ==
  IF d = <<>> THEN <<>>
  ELSE InsertRow(d[Len(d)], SortValues(SubSeq(d, 1, Len(d) - 1)))

\* str.replace(old, new) for a two-atom old, scanning left to right
RECURSIVE ReplacePair(_, _, _, _)
ReplacePair(s, a, b, new) ==
  IF Len(s) < 2 THEN s
  ELSE IF s[1] = a /\ s[2] = b
       THEN <<new>> \o ReplacePair(SubSeq(s, 3, Len(s)), a, b, new)
       ELSE <<s[1]>> \o ReplacePair(Tail(s), a, b, new)

ReplaceChar(s, old, new) == [i \in DOMAIN s |-> IF s[i] = old THEN new ELSE s[i]]

\* .str.replace('\n\n', ' ').str.replace('\n', ' ')
CollapseLineBreaks(s) == ReplaceChar(ReplacePair(s, "\n", "\n", " "), "\n", " ")

\* the character budget of a description
DescriptionLimit == 500

\* x[:500] + "..." if len(str(x)) > 500 else x; the Description cells of the
\* input domain are made of one-character atoms, so Len is len
Truncate(s) ==
  IF Len(s) > DescriptionLimit
  THEN SubSeq(s, 1, DescriptionLimit) \o <<".", ".", ".">>
  ELSE s

\* the columns of the returned frame
DetailedColumns(cols) ==
  LET available == AllColumns \cap cols
      both == {"CVSS v3.0 Base Score", "CVSS v2.0 Base Score"}
  IN  IF both \subseteq available
      THEN (available \ both) \cup {"CVSS Score"}
      ELSE available

\* one cell of the returned frame
DetailedCell(r, c) ==
  CASE c = "Description" -> Truncate(CollapseLineBreaks(r.cells[c]))
    [] c = "Solution" -> CollapseLineBreaks(r.cells[c])
    [] c = "CVSS Score" ->
         \* detailed_df['CVSS v3.0 Base Score'].fillna(detailed_df['CVSS v2.0 Base Score'])
         IF IsNa(r.cells["CVSS v3.0 Base Score"])
         THEN r.cells["CVSS v2.0 Base Score"]
         ELSE r.cells["CVSS v3.0 Base Score"]
    [] OTHER -> r.cells[c]

\* security_df: the rows whose Risk is not 'None', or every row when there
\* is none of them
SecurityRows(d) ==
  LET security_df == SelectSeq(d, LAMBDA r : r.cells["Risk"] # <<"None">>)
  IN  IF Len(security_df) = 0 THEN d ELSE security_df

DetailedReport(d, cols) ==
  LET sorted == SortValues(SecurityRows(d))
  IN  [i \in DOMAIN sorted |->
         [idx |-> sorted[i].idx,
          cells |-> [c \in DetailedColumns(cols) |-> DetailedCell(sorted[i], c)]]]

NoView == [status |-> "none", rows |-> <<>>]

\* what a call of create_detailed_report comes to
DetailedView(d, cols) ==
  IF "Risk" \in cols
  THEN [status |-> "returned", rows |-> DetailedReport(d, cols)]
  ELSE \* self.df['Risk'] raises KeyError
       [status |-> "KeyError", rows |-> <<>>]

CreateDetailedReport ==
  /\ pc \in {"cleaned", "summarized"}
  /\ detailed' = DetailedView(df, columns)
  /\ UNCHANGED <<csv_file, df, columns, pc, attempts, summary_stats, executive,
                 host_summary, tie_order, run, batch>>

----------------------------------------------------------------------------
(* Series.value_counts *)

\* how value_counts orders keys of equal count.  It sorts the counts with
\* sort_values(ascending=False), whose default kind is numpy's quicksort;
\* numpy promises no order among equal elements and the order differs from
\* build to build (scalar introsort, SIMD sorting networks).  One build
\* gives one order: "first" lists equal counts in order of first
\* occurrence, "last" in the opposite order.
TieOrders == {"first", "last"}

\* the distinct values of a column in order of first occurrence
RECURSIVE Uniques(_)
Uniques(s) ==
  IF s = <<>> THEN <<>>
  ELSE LET u == Uniques(SubSeq(s, 1, Len(s) - 1))
       IN  IF \E i \in DOMAIN u : u[i] = s[Len(s)] THEN u ELSE Append(u, s[Len(s)])

\* mutant: a key of equal count goes before the ones listed, whatever the
\* build
InsertCount_Front(e, s, tie) ==
  LET ahead == {i \in DOMAIN s : s[i].count > e.count}
      p == Cardinality(ahead)
  IN  SubSeq(s, 1, p) \o <<e>> \o SubSeq(s, p + 1, Len(s))

\* entry e put into the entries s, which are in descending order of count
InsertCount(e, s, tie) ==
  LET ahead == {i \in DOMAIN s :
                  s[i].count > e.count \/ (tie = "first" /\ s[i].count = e.count)}
      p == Cardinality(ahead)
  IN  SubSeq(s, 1, p) \o <<e>> \o SubSeq(s, p + 1, Len(s))

RECURSIVE SortCounts(_, _)
SortCounts(entries, tie) ==
  IF entries = <<>> THEN <<>>
  ELSE InsertCount(entries[Len(entries)],
                   SortCounts(SubSeq(entries, 1, Len(entries) - 1), tie), tie)

\* s.value_counts(): NaN dropped, one entry per distinct value, most
\* frequent first
ValueCounts(s, tie) ==
  LET present == SelectSeq(s, LAMBDA c : ~IsNa(c))
      keys == Uniques(present)
  IN  SortCounts([i \in DOMAIN keys |->
                    [key |-> keys[i],
                     count |-> Cardinality({j \in DOMAIN present :
                                              present[j] = keys[i]})]], tie)

\* how many entries a top table keeps
TopN == 10

\* mutant: the table keeps the last n entries
HeadN_Tail(s, n) == IF Len(s) <= n THEN s ELSE SubSeq(s, Len(s) - n + 1, Len(s))

\* .head(n)
HeadN(s, n) == IF Len(s) <= n THEN s ELSE SubSeq(s, 1, n)

\* the cells of one column, row by row
Column(d, col) == [i \in DOMAIN d |-> d[i].cells[col]]

\* self.df[self.df['Risk'] != 'None']
NotNone(d) == SelectSeq(d, LAMBDA r : r.cells["Risk"] # <<"None">>)

\* s.nunique(): the distinct values that are not NaN
NUnique(s) == Cardinality({s[i] : i \in DOMAIN s} \ {NaN})

----------------------------------------------------------------------------
(* generate_summary *)

\* a dict is a function on its keys; {} is the function on no key
EmptyDict == <<>>

\* d.get(k, default)
Get(d, k, default) == IF k \in DOMAIN d THEN d[k] ELSE default

\* mutant: every severity has an item, the ones without a finding at 0 (as
\* value_counts of a categorical column gives them)
ToDict_All(counts) ==
  [k \in {counts[i].key : i \in DOMAIN counts} \cup valid_risks |->
     IF \E i \in DOMAIN counts : counts[i].key = k
     THEN counts[CHOOSE i \in DOMAIN counts : counts[i].key = k].count
     ELSE 0]

\* counts.to_dict() where the order of the items is not read afterwards
ToDict(counts) ==
  [k \in {counts[i].key : i \in DOMAIN counts} |->
     counts[CHOOSE i \in DOMAIN counts : counts[i].key = k].count]

\* mutant: every severity weighs the same
risk_weights_Flat == [k \in valid_risks \cup {<<"None">>} |-> 1]

risk_weights ==
  <<"Critical">> :> 4 @@ <<"High">> :> 3 @@ <<"Medium">> :> 2 @@ <<"Low">> :> 1
    @@ <<"None">> :> 0

RECURSIVE WeightedSum(_)
WeightedSum(counts) ==
  IF counts = <<>> THEN 0
  ELSE Get(risk_weights, counts[1].key, 0) * counts[1].count
         + WeightedSum(Tail(counts))

RECURSIVE SumOf(_)
SumOf(s) == IF s = <<>> THEN 0 ELSE s[1] + SumOf(Tail(s))

MaxOf(s) == CHOOSE m \in {s[i] : i \in DOMAIN s} : \A i \in DOMAIN s : s[i] <= m

\* a / b to the nearest integer, a half going to the even one (round of a
\* float, numpy's rint); the mean is taken as the exact quotient, the error
\* of the float sum being below what the scores of the input domain show.
\* Where the exact mean lies half-way between two hundredths the float error
\* decides which one round gives; the files of the input domain have no
\* such mean.
RoundHalfEven(a, b) ==
  LET q == a \div b
      r == a % b
  IN  IF 2 * r < b THEN q
      ELSE IF 2 * r > b THEN q + 1
      ELSE IF q % 2 = 0 THEN q ELSE q + 1

\* mutant: a score of exactly 7.0 is not a high one
IsHighCvss_Strict(x) == x > 70

\* cvss_data >= 7.0, for a score in tenths
IsHighCvss(x) == x >= 70

\* the CVSS_Score values that are not NaN, in tenths
Scores(d) ==
  LET scored == SelectSeq(d, LAMBDA r : r.cvss # NaN)
  IN  [i \in DOMAIN scored |-> scored[i].cvss[1]]

\* the items generate_summary writes when 'Risk' is a column.  Scores are
\* held in hundredths (avg_cvss, max_cvss are rounded to two decimals).
SummaryItems(d, cols, tie) ==
  LET security == NotNone(d)
      risk_counts == ValueCounts(Column(d, "Risk"), tie)
      severity == ("by_severity" :> ToDict(risk_counts))
                    @@ ("risk_score" :> WeightedSum(risk_counts))
      hosts ==
        IF "Host" \in cols
        THEN ("total_hosts" :> NUnique(Column(d, "Host")))
               @@ ("hosts_with_issues" :> NUnique(Column(security, "Host")))
               @@ ("most_affected_hosts" :>
                     HeadN(ValueCounts(Column(security, "Host"), tie), TopN))
        ELSE EmptyDict
      findings ==
        ("total_findings" :> Len(d))
          @@ ("security_findings" :> Len(security))
          @@ ("top_vulnerabilities" :>
                HeadN(ValueCounts(Column(security, "Name"), tie), TopN))
      cvss_data == Scores(d)
      cvss ==
        IF "CVSS_Score" \in cols /\ Len(cvss_data) > 0
        THEN ("avg_cvss" :> RoundHalfEven(10 * SumOf(cvss_data), Len(cvss_data)))
               @@ ("max_cvss" :> 10 * MaxOf(cvss_data))
               @@ ("high_cvss_count" :> Len(SelectSeq(cvss_data, IsHighCvss)))
        ELSE EmptyDict
      ports ==
        IF "Port" \in cols
        THEN "common_vulnerable_ports" :>
               HeadN(ValueCounts(Column(security, "Port"), tie), TopN)
        ELSE EmptyDict
  IN  severity @@ hosts @@ findings @@ cvss @@ ports

\* self.df['Risk'] without the column: KeyError, at line 140 or at line 150,
\* before any item is written
SummaryRaises(cols) == "Risk" \notin cols

\* mutant: summary_stats is emptied before the items are written
Updated_Fresh(stats, items) == items

\* self.summary_stats[k] = v for each item: the other keys stay
Updated(stats, items) == items @@ stats

\* the call generator.generate_summary()
GenerateSummaryCall ==
  /\ pc = "cleaned"
  /\ IF SummaryRaises(columns)
     THEN /\ pc' = "summary_failed"
          /\ UNCHANGED summary_stats
     ELSE /\ pc' = "summarized"
          /\ summary_stats' = Updated(summary_stats, SummaryItems(df, columns, tie_order))
  /\ UNCHANGED <<csv_file, df, columns, detailed, attempts, executive,
                 host_summary, tie_order, batch>>

GenerateSummary == GenerateSummaryCall /\ UNCHANGED run

----------------------------------------------------------------------------
(* create_executive_summary *)

\* len of a string: an atom that stands for a whole word counts as its
\* letters do, any other atom is one character
WordLen ==
  [w \in {"SQLi", "Weak", "Info"} |-> 4]
    @@ [w \in {"XSS", "foo", "nan", "p01", "p02", "p03", "p04", "p05", "p06",
               "p07", "p08", "p09", "p10"} |-> 3]

RECURSIVE StrLen(_)
StrLen(s) ==
  IF s = <<>> THEN 0
  ELSE (IF s[1] \in DOMAIN WordLen THEN WordLen[s[1]] ELSE 1) + StrLen(Tail(s))

\* the characters a finding name is cut to
NameLimit == 60

\* s[:n], for a cut that falls between two atoms
RECURSIVE TakeChars(_, _)
TakeChars(s, n) ==
  IF s = <<>> \/ StrLen(<<s[1]>>) > n THEN <<>>
  ELSE <<s[1]>> \o TakeChars(Tail(s), n - StrLen(<<s[1]>>))

\* mutant: a long name is cut without the mark that it was
VulnName_Cut(vuln) ==
  IF StrLen(vuln) > NameLimit THEN TakeChars(vuln, NameLimit) ELSE vuln

\* vuln[:60] + "..." if len(vuln) > 60 else vuln
VulnName(vuln) ==
  IF StrLen(vuln) > NameLimit
  THEN TakeChars(vuln, NameLimit) \o <<".", ".", ".">>
  ELSE vuln

Pair(metric, value) == [Metric |-> metric, Value |-> value]

Overview(stats) ==
  << Pair(<<"Assessment Overview">>, <<>>),
     Pair(<<"Total Hosts Scanned">>, Get(stats, "total_hosts", <<"N/A">>)),
     Pair(<<"Hosts with Security Issues">>, Get(stats, "hosts_with_issues", <<"N/A">>)),
     Pair(<<"Total Findings">>, Get(stats, "total_findings", <<"N/A">>)),
     Pair(<<"Security-Relevant Findings">>, Get(stats, "security_findings", <<"N/A">>)) >>

CvssMetrics(stats) ==
  IF "avg_cvss" \in DOMAIN stats
  THEN << Pair(<<>>, <<>>),
          Pair(<<"CVSS Metrics">>, <<>>),
          Pair(<<"Average CVSS Score">>, Get(stats, "avg_cvss", <<"N/A">>)),
          Pair(<<"Highest CVSS Score">>, Get(stats, "max_cvss", <<"N/A">>)),
          Pair(<<"High Risk Findings (CVSS >= 7.0)">>,
               Get(stats, "high_cvss_count", <<"N/A">>)) >>
  ELSE <<>>

\* the severities in the order the distribution lists them
distribution_order ==
  << <<"Critical">>, <<"High">>, <<"Medium">>, <<"Low">>, <<"None">> >>

RECURSIVE RiskLines(_, _)
RiskLines(by_severity, k) ==
  IF k > Len(distribution_order) THEN <<>>
  ELSE LET risk == distribution_order[k]
           count == Get(by_severity, risk, 0)
       IN  (IF count > 0 THEN <<Pair(risk \o <<" ", "Risk">>, count)>> ELSE <<>>)
             \o RiskLines(by_severity, k + 1)

RiskDistribution(stats) ==
  IF "by_severity" \in DOMAIN stats
  THEN << Pair(<<>>, <<>>), Pair(<<"Risk Level Distribution">>, <<>>) >>
         \o RiskLines(stats["by_severity"], 1)
  ELSE <<>>

\* how many finding names the summary lists
TopIssues == 5

MostCommon(stats) ==
  IF "top_vulnerabilities" \in DOMAIN stats
  THEN LET top == HeadN(stats["top_vulnerabilities"], TopIssues)
       IN  << Pair(<<>>, <<>>), Pair(<<"Most Common Vulnerabilities">>, <<>>) >>
             \o [i \in DOMAIN top |-> Pair(VulnName(top[i].key), top[i].count)]
  ELSE <<>>

ExecutiveSummary(stats) ==
  Overview(stats) \o CvssMetrics(stats) \o RiskDistribution(stats) \o MostCommon(stats)

\* mutant: the items are popped as they are read
StatsAfterView_Popped(stats) == EmptyDict

\* what the call leaves of self.summary_stats: it is only read
StatsAfterView(stats) == stats

\* what a call of create_executive_summary comes to
ExecutiveView(stats) == [status |-> "returned", rows |-> ExecutiveSummary(stats)]

CreateExecutiveSummary ==
  /\ pc \in {"cleaned", "summarized"}
  /\ executive' = ExecutiveView(summary_stats)
  /\ summary_stats' = StatsAfterView(summary_stats)
  /\ UNCHANGED <<csv_file, df, columns, pc, detailed, attempts, host_summary,
                 tie_order, run, batch>>

----------------------------------------------------------------------------
(* create_host_summary *)

\* the host names of the input domain in the order Python compares strings
\* (by code point)
HostOrder ==
  << "hostA", "hostB", "hostC", "nan", "p01", "p02", "p03", "p04", "p05",
     "p06", "p07", "p08", "p09", "p10" >>

AtomRank(a) ==
  IF \E i \in DOMAIN HostOrder : HostOrder[i] = a
  THEN CHOOSE i \in DOMAIN HostOrder : HostOrder[i] = a
  ELSE 0

\* a < b for two strings
RECURSIVE StrLess(_, _)
StrLess(a, b) ==
  IF b = <<>> THEN FALSE
  ELSE IF a = <<>> THEN TRUE
  ELSE IF a[1] = b[1] THEN StrLess(Tail(a), Tail(b))
  ELSE AtomRank(a[1]) < AtomRank(b[1])

\* sorted(S)
RECURSIVE Sorted(_)
Sorted(S) ==
  IF S = {} THEN <<>>
  ELSE LET least == CHOOSE x \in S : \A y \in S \ {x} : StrLess(x, y)
       IN  <<least>> \o Sorted(S \ {least})

DigitChar == <<"0", "1", "2", "3", "4", "5", "6", "7", "8", "9">>

\* f"{count}"
RECURSIVE IntText(_)
IntText(n) ==
  IF n < 10 THEN <<DigitChar[n + 1]>>
  ELSE IntText(n \div 10) \o <<DigitChar[(n % 10) + 1]>>

\* how many ports a host row lists
TopPorts == 3

\* ', '.join(f"{port}({count})" ...)
RECURSIVE PortsStr(_)
PortsStr(common_ports) ==
  IF common_ports = <<>> THEN <<>>
  ELSE LET item == common_ports[1].key
                     \o <<"(">> \o IntText(common_ports[1].count) \o <<")">>
       IN  IF Len(common_ports) = 1 THEN item
           ELSE item \o <<",", " ">> \o PortsStr(Tail(common_ports))

HostRow(host, security_df, cols, tie) ==
  LET host_data == SelectSeq(security_df, LAMBDA r : r.cells["Host"] = host)
      risk_counts == ToDict(ValueCounts(Column(host_data, "Risk"), tie))
      cvss_scores == Scores(host_data)
      common_ports == HeadN(ValueCounts(Column(host_data, "Port"), tie), TopPorts)
  IN  [ Host |-> host,
        Total |-> Len(host_data),
        Critical |-> Get(risk_counts, <<"Critical">>, 0),
        High |-> Get(risk_counts, <<"High">>, 0),
        Medium |-> Get(risk_counts, <<"Medium">>, 0),
        Low |-> Get(risk_counts, <<"Low">>, 0),
        HighestCVSS |-> IF Len(cvss_scores) > 0 THEN <<MaxOf(cvss_scores)>> ELSE <<"N/A">>,
        CommonPorts |-> PortsStr(common_ports) ]

\* the hosts the summary has a row for, in the order of the rows
SummaryHosts(d) ==
  LET hosts == Column(NotNone(d), "Host")
  IN  Sorted({hosts[i] : i \in DOMAIN hosts})

HostSummary(d, cols, tie) ==
  IF "Host" \notin cols
  THEN [status |-> "returned", rows |-> <<>>]
  ELSE IF "Risk" \notin cols
  THEN \* self.df['Risk'] raises KeyError
       [status |-> "KeyError", rows |-> <<>>]
  ELSE IF SummaryHosts(d) # <<>> /\ "Port" \notin cols
  THEN \* host_data['Port'] raises KeyError
       [status |-> "KeyError", rows |-> <<>>]
  ELSE LET hosts == SummaryHosts(d)
       IN  [status |-> "returned",
            rows |-> [i \in DOMAIN hosts |->
                        HostRow(hosts[i], NotNone(d), cols, tie)]]

CreateHostSummary ==
  /\ pc \in {"cleaned", "summarized"}
  /\ host_summary' = HostSummary(df, columns, tie_order)
  /\ UNCHANGED <<csv_file, df, columns, pc, detailed, attempts, summary_stats,
                 executive, tie_order, run, batch>>

----------------------------------------------------------------------------
(* The generator: constructed on a file, then load_data, clean_data and the *)
(* view                                                                     *)

\* a generator as __init__ leaves it (df = None, summary_stats = {})
Constructed ==
  /\ df = <<>>
  /\ columns = {}
  /\ pc = "new"
  /\ attempts = <<>>
  /\ summary_stats = <<>>
  /\ detailed = NoView
  /\ executive = NoView
  /\ host_summary = NoView

NoRun == [mode |-> "none"]

Init ==
  /\ \E h \in Headers, q \in SeqsUpTo(RawRecords, MaxRows) : csv_file = CsvFile(h, q)
  /\ Constructed
  /\ tie_order = "first"
  /\ run = NoRun
  /\ batch = <<>>

Next ==
  \/ LoadData
  \/ CleanData
  \/ CreateDetailedReport

Spec == Init /\ [][Next]_vars

----------------------------------------------------------------------------
(* The generator with its summary and its three views, on files that hold *)
(* ports and more hosts, names and ports than a top table keeps            *)

\* how many findings a file holds besides its block of one-finding hosts
MaxExtra == 2

Scanned(host, port, name, risk, v3) ==
  [Finding(host, name, risk, v3, <<>>) EXCEPT !["Port"] = port]

ScanRecords ==
  { Scanned(<<"hostA">>, <<"4", "4", "3">>, <<"SQLi">>, <<"Critical">>,
            <<"9", ".", "8">>),
    Scanned(<<"hostB">>, <<"8", "0">>, <<"SQLi">>, <<"High">>, <<"9", ".", "1">>),
    Scanned(<<"hostB">>, <<>>, <<"XSS">>, <<"Medium">>, <<>>) }

PadHosts == <<"p01", "p02", "p03", "p04", "p05", "p06", "p07", "p08", "p09", "p10">>

\* k findings, each on a host, a port and of a name of its own
Pad(k) ==
  [i \in 1..k |->
     Scanned(<<PadHosts[i]>>, <<"9", DigitChar[i]>>, <<"n", PadHosts[i]>>,
             <<"Low">>, <<>>)]

ScanHeaders ==
  { {<<c>> : c \in AllColumns},
    {<<c>> : c \in AllColumns \ {"Port"}},
    {<<c>> : c \in AllColumns \ {"Risk"}},
    {<<c>> : c \in AllColumns \ {"Host"}},
    {<<c>> : c \in AllColumns \ {"CVSS v3.0 Base Score", "CVSS v2.0 Base Score"}} }

\* the file holds the block of one-finding hosts before or after the others
InitApi ==
  /\ \E h \in ScanHeaders, q \in SeqsUpTo(ScanRecords, MaxExtra),
        k \in {0, Len(PadHosts)}, front \in BOOLEAN :
       csv_file = CsvFile(h, IF front THEN Pad(k) \o q ELSE q \o Pad(k))
  /\ Constructed
  /\ tie_order \in TieOrders
  /\ run = NoRun
  /\ batch = <<>>

NextApi ==
  \/ LoadData
  \/ CleanData
  \/ GenerateSummary
  \/ CreateExecutiveSummary
  \/ CreateHostSummary
  \/ CreateDetailedReport

SpecApi == InitApi /\ [][NextApi]_vars

----------------------------------------------------------------------------
(* One run of a caller on one file: main (src/nessus.py) and the body of  *)
(* the loop of generate (src/web_app.py)                                   *)

\* how many records a file of a run holds
MaxRunRows == 1

formats == <<"csv", "excel", "html">>

\* -f csv | excel | html | all
CliFormats == {{"csv"}, {"excel"}, {"html"}, {"csv", "excel", "html"}}

\* format_csv, format_excel, format_html: at least one is ticked
WebFormats == (SUBSET {"csv", "excel", "html"}) \ {{}}

\* the exports a run makes, in the order it makes them
Todo(wanted) == SelectSeq(formats, LAMBDA f : f \in wanted)

\* mutant: the caller goes on whatever load_data returns
AfterLoad_Unchecked(mode, ok) == "clean_data"

\* if not generator.load_data(): sys.exit(1) in main, continue in generate
AfterLoad(mode, ok) ==
  IF ok THEN "clean_data" ELSE IF mode = "cli" THEN "exit" ELSE "skipped"

\* mutant: the exports come straight after clean_data
AfterClean_Export(todo) == "export"

\* generator.clean_data() is followed by generator.generate_summary()
AfterClean(todo) == "generate_summary"

\* an exception of a stage is not caught by either caller
AfterStage(raised, todo) ==
  IF raised THEN "crashed" ELSE IF todo = <<>> THEN "done" ELSE "export"

RunLoad ==
  /\ run.mode # "none" /\ run.at = "load_data"
  /\ LoadDataCall
  /\ run' = [run EXCEPT !.calls = Append(@, "load_data"),
                        !.at = AfterLoad(run.mode, pc' = "loaded")]

RunClean ==
  /\ run.mode # "none" /\ run.at = "clean_data"
  /\ CleanDataCall
  /\ run' = [run EXCEPT !.calls = Append(@, "clean_data"),
                        !.at = AfterClean(run.todo)]

RunSummary ==
  /\ run.mode # "none" /\ run.at = "generate_summary"
  /\ GenerateSummaryCall
  /\ run' = [run EXCEPT !.calls = Append(@, "generate_summary"),
                        !.at = AfterStage(pc' = "summary_failed", run.todo)]

export_name ==
  [f \in {"csv", "excel", "html"} |->
     IF f = "csv" THEN "export_to_csv"
     ELSE IF f = "excel" THEN "export_to_excel" ELSE "export_to_html"]

\* the view builders an export calls, in order, up to the one that raises
ExportCalls(fmt, host) ==
  <<export_name[fmt], "create_executive_summary">>
    \o (IF fmt = "csv" THEN <<>> ELSE <<"create_host_summary">>)
    \o (IF fmt = "html" /\ host.status = "returned" /\ host.rows # <<>>
        THEN <<"create_host_summary">> ELSE <<>>)
    \o (IF fmt # "csv" /\ host.status = "KeyError"
        THEN <<>> ELSE <<"create_detailed_report">>)

\* the views v of a generator after one export that builds exec, host and
\* view: export_to_csv builds no host summary, and an export whose host
\* summary raises builds no detailed report
AfterExport(v, fmt, exec, host, view) ==
  LET host_raises == fmt # "csv" /\ host.status = "KeyError"
  IN  [executive |-> exec,
       host_summary |-> IF fmt = "csv" THEN v.host_summary ELSE host,
       detailed |-> IF host_raises THEN v.detailed ELSE view,
       raised |-> host_raises \/ view.status = "KeyError"]

\* export_to_csv, export_to_excel, export_to_html as far as they build views
Export(fmt) ==
  /\ run.mode # "none" /\ run.at = "export" /\ run.todo[1] = fmt
  /\ LET host == HostSummary(df, columns, tie_order)
         v == AfterExport([executive |-> executive, host_summary |-> host_summary,
                           detailed |-> detailed, raised |-> FALSE],
                          fmt, ExecutiveView(summary_stats), host,
                          DetailedView(df, columns))
     IN  /\ executive' = v.executive
         /\ host_summary' = v.host_summary
         /\ detailed' = v.detailed
         /\ run' = [run EXCEPT !.calls = @ \o ExportCalls(fmt, host),
                               !.todo = Tail(@),
                               !.at = AfterStage(v.raised, Tail(run.todo))]
  /\ UNCHANGED <<csv_file, df, columns, pc, attempts, summary_stats, tie_order,
                 batch>>

ExportToCsv == Export("csv")

ExportToExcel == Export("excel")

ExportToHtml == Export("html")

RunHeaders ==
  { {<<c>> : c \in AllColumns},
    {<<c>> : c \in AllColumns \ {"Port"}},
    {<<c>> : c \in AllColumns \ {"Risk"}},
    {<<c>> : c \in AllColumns \ {"Name"}} }

\* a file in utf-8, one that is not utf-8, one the parser rejects, and one
\* no encoding decodes (the case load_data raises ValueError for; the
\* latin-1 codec of CPython decodes every byte, so no file is known to
\* bring it about)
RunReads ==
  { ReadsAll,
    [ReadsAll EXCEPT !["utf-8"] = "UnicodeDecodeError"],
    [ReadsAll EXCEPT !["utf-8"] = "ParserError"],
    [e \in DOMAIN ReadsAll |-> "UnicodeDecodeError"] }

InitRun ==
  /\ \E h \in RunHeaders, q \in SeqsUpTo(ScanRecords, MaxRunRows), rd \in RunReads :
       csv_file = CsvFileAs(h, q, rd)
  /\ Constructed
  /\ tie_order \in TieOrders
  /\ \E mode \in {"cli", "web"} :
       \E wanted \in IF mode = "cli" THEN CliFormats ELSE WebFormats :
         run = [mode |-> mode, at |-> "load_data", todo |-> Todo(wanted),
                calls |-> <<>>]
  /\ batch = <<>>

NextRun ==
  \/ RunLoad
  \/ RunClean
  \/ RunSummary
  \/ ExportToCsv
  \/ ExportToExcel
  \/ ExportToHtml

SpecRun == InitRun /\ [][NextRun]_vars

----------------------------------------------------------------------------
(* load_data step by step: one action for each pass of its loop over the   *)
(* encodings                                                               *)

\* one pass of `for encoding in encodings`: pd.read_csv under the next
\* encoding; break on success, continue on UnicodeDecodeError, any other
\* exception leaves the loop for `return False`
\* the names pd.read_csv gives the columns: those of the header as the file
\* spells them (a name without padding is held as the name itself, a padded
\* one as the characters of the file)
HeaderColumns(header) == {IF Strip(h) = h THEN h[1] ELSE h : h \in header}

ReadAttempt ==
  /\ pc \in {"new", "reading"}
  /\ Len(attempts) < Len(encodings)
  /\ LET encoding == encodings[Len(attempts) + 1]
         outcome == csv_file.reads[encoding]
     IN  /\ attempts' = Append(attempts, encoding)
         /\ df' = IF outcome = "ok" THEN ReadCsv(csv_file) ELSE df
         /\ columns' = IF outcome = "ok" THEN HeaderColumns(csv_file.header)
                        ELSE columns
         /\ pc' = CASE outcome = "ok" -> "decoded"
                    [] outcome = "UnicodeDecodeError" -> "reading"
                    [] OTHER -> "load_failed"
  /\ UNCHANGED <<csv_file, detailed, summary_stats, executive, host_summary,
                 tie_order, run, batch>>

\* the loop is over and self.df is None: ValueError, caught, return False
RaiseNoEncoding ==
  /\ pc = "reading"
  /\ Len(attempts) = Len(encodings)
  /\ pc' = "load_failed"
  /\ UNCHANGED <<csv_file, df, columns, detailed, attempts, summary_stats,
                 executive, host_summary, tie_order, run, batch>>

\* the rest of load_data on the frame read: the column names stripped, the
\* informational findings filtered out
FilterLoaded ==
  /\ pc = "decoded"
  /\ columns' = StripColumns(csv_file.header)
  /\ IF "Name" \in columns'
     THEN df' = FilterInformational(df) /\ pc' = "loaded"
     ELSE df' = df /\ pc' = "load_failed"
  /\ UNCHANGED <<csv_file, detailed, attempts, summary_stats, executive,
                 host_summary, tie_order, run, batch>>

LoadHeaders ==
  { {<<c>> : c \in AllColumns}, {<<c>> : c \in AllColumns \ {"Name"}} }

\* every way the three reads of a file can end.  The latin-1 codec of
\* CPython decodes every byte, so UnicodeDecodeError under latin-1 is not
\* known to happen; load_data provides for it and so it is among the inputs.
AllReads == [DOMAIN ReadsAll -> ReadOutcomes]

InitLoad ==
  /\ \E h \in LoadHeaders, q \in SeqsUpTo(ScanRecords, MaxRunRows), rd \in AllReads :
       csv_file = CsvFileAs(h, q, rd)
  /\ Constructed
  /\ tie_order = "first"
  /\ run = NoRun
  /\ batch = <<>>

NextLoad == ReadAttempt \/ RaiseNoEncoding \/ FilterLoaded

\* load_data is sequential code: a call that has begun goes on
SpecLoad == InitLoad /\ [][NextLoad]_vars /\ WF_vars(NextLoad)

----------------------------------------------------------------------------
(* A batch: the generators the generate handler constructs for the files   *)
(* of one request, their stages interleaved in any order (the handler runs *)
(* them one after the other)                                               *)

\* how many records a file of a batch holds
MaxBatchRows == 2

\* request.files.getlist("csv_file")
Uploads == {1, 2}

\* mutant: summary_stats is one dict of the class, shared by its instances
StatsOf_Shared(i) == 1

\* self.summary_stats = {}: the dict generator i is given by __init__, a new
\* one for each instance
StatsOf(i) == i

\* NessusReportGenerator(csv_path)
NewGenerator(i, file) ==
  [csv_file |-> file, df |-> <<>>, columns |-> {}, pc |-> "new",
   stats |-> StatsOf(i), executive |-> NoView, host_summary |-> NoView,
   detailed |-> NoView]

\* generator.load_data() in run i
BatchLoad(i) ==
  /\ i \in DOMAIN batch.gens
  /\ batch.gens[i].pc = "new"
  /\ LET res == LoadResult(batch.gens[i].csv_file)
     IN  batch' = [batch EXCEPT
                     !.gens[i].df = res.df,
                     !.gens[i].columns = res.columns,
                     !.gens[i].pc = IF res.ok THEN "loaded" ELSE "load_failed"]
  /\ UNCHANGED <<csv_file, df, columns, pc, detailed, attempts, summary_stats,
                 executive, host_summary, tie_order, run>>

\* generator.clean_data() in run i
BatchClean(i) ==
  /\ i \in DOMAIN batch.gens
  /\ batch.gens[i].pc = "loaded"
  /\ LET g == batch.gens[i]
     IN  batch' = [batch EXCEPT
                     !.gens[i].df = CleanedFrame(g.df, g.columns),
                     !.gens[i].columns = g.columns \cup {"CVSS_Score"},
                     !.gens[i].pc = "cleaned"]
  /\ UNCHANGED <<csv_file, df, columns, pc, detailed, attempts, summary_stats,
                 executive, host_summary, tie_order, run>>

\* generator.generate_summary() in run i
BatchSummary(i) ==
  /\ i \in DOMAIN batch.gens
  /\ batch.gens[i].pc = "cleaned"
  /\ LET g == batch.gens[i]
     IN  IF SummaryRaises(g.columns)
         THEN batch' = [batch EXCEPT !.gens[i].pc = "summary_failed"]
         ELSE batch' = [batch EXCEPT
                          !.gens[i].pc = "summarized",
                          !.dicts[g.stats] =
                             Updated(@, SummaryItems(g.df, g.columns,
                                                     tie_order))]
  /\ UNCHANGED <<csv_file, df, columns, pc, detailed, attempts, summary_stats,
                 executive, host_summary, tie_order, run>>

\* the views v of a generator after the exports todo, made in order up to
\* one that raises
RECURSIVE AfterExports(_, _, _, _, _)
AfterExports(v, todo, exec, host, view) ==
  IF todo = <<>> \/ v.raised THEN v
  ELSE AfterExports(AfterExport(v, todo[1], exec, host, view), Tail(todo),
                    exec, host, view)

\* the views of a generator that has exported nothing
NoViews ==
  [executive |-> NoView, host_summary |-> NoView, detailed |-> NoView,
   raised |-> FALSE]

\* the exports of run i: one for each format the request ticks
BatchExport(i) ==
  /\ i \in DOMAIN batch.gens
  /\ batch.gens[i].pc = "summarized"
  /\ LET g == batch.gens[i]
         v == AfterExports(NoViews, Todo(batch.wanted),
                           ExecutiveView(batch.dicts[g.stats]),
                           HostSummary(g.df, g.columns, tie_order),
                           DetailedView(g.df, g.columns))
     IN  batch' = [batch EXCEPT
                     !.gens[i].pc = IF v.raised THEN "crashed" ELSE "exported",
                     !.gens[i].executive = v.executive,
                     !.gens[i].host_summary = v.host_summary,
                     !.gens[i].detailed = v.detailed]
  /\ UNCHANGED <<csv_file, df, columns, pc, detailed, attempts, summary_stats,
                 executive, host_summary, tie_order, run>>

\* the files of a request: scanner exports, and an export without a Name
\* column, which load_data fails on
BatchFiles ==
  {CsvFile({<<c>> : c \in AllColumns}, q) : q \in SeqsUpTo(ScanRecords, MaxBatchRows)}
    \cup {CsvFile({<<c>> : c \in AllColumns \ {"Name"}},
                   <<Scanned(<<"hostA">>, <<"4", "4", "3">>, <<"SQLi">>,
                             <<"Critical">>, <<"9", ".", "8">>)>>)}

\* the formats a request ticks: CSV alone, or all three
BatchFormats == {{"csv"}, {"csv", "excel", "html"}}

InitBatch ==
  /\ \E files \in [Uploads -> BatchFiles], wanted \in BatchFormats :
       batch = [gens |-> [i \in Uploads |-> NewGenerator(i, files[i])],
                dicts |-> [i \in Uploads |-> EmptyDict],
                wanted |-> wanted]
  /\ csv_file = CsvFile({}, <<>>)  \* the single generator is not in use
  /\ Constructed
  /\ tie_order \in TieOrders
  /\ run = NoRun

NextBatch ==
  \E i \in Uploads : BatchLoad(i) \/ BatchClean(i) \/ BatchSummary(i) \/ BatchExport(i)

SpecBatch == InitBatch /\ [][NextBatch]_vars

----------------------------------------------------------------------------
(* A generator used again: its caller gives it another file and calls      *)
(* load_data, clean_data and generate_summary once more                    *)

ReuseHeaders ==
  { {<<c>> : c \in AllColumns}, {<<c>> : c \in AllColumns \ {"Port"}} }

\* generator.csv_file = path, by the caller of a summarized generator
SetCsvFile ==
  /\ pc = "summarized"
  /\ \E h \in ReuseHeaders, q \in SeqsUpTo(ScanRecords, MaxRunRows) :
       csv_file' = CsvFile(h, q)
  /\ pc' = "new"
  /\ UNCHANGED <<df, columns, detailed, attempts, summary_stats, executive,
                 host_summary, tie_order, run, batch>>

InitReuse ==
  /\ \E h \in ReuseHeaders, q \in SeqsUpTo(ScanRecords, MaxRunRows) :
       csv_file = CsvFile(h, q)
  /\ Constructed
  /\ tie_order \in TieOrders
  /\ run = NoRun
  /\ batch = <<>>

NextReuse == LoadData \/ CleanData \/ GenerateSummary \/ SetCsvFile

SpecReuse == InitReuse /\ [][NextReuse]_vars

----------------------------------------------------------------------------
(* The generator on the worked example of the documentation and on files   *)
(* with long names, line breaks and scores at the 7.0 mark                 *)

\* how many findings a file holds besides its block of one-finding hosts
MaxOther == 3

\* a name one character longer than the executive summary shows
LongName == [i \in 1..(NameLimit + 1) |-> "x"]

\* a name as long as the executive summary shows
FullName == [i \in 1..NameLimit |-> "y"]

ReportRecords ==
  { Scanned(<<"hostB">>, <<"4", "4", "3">>, LongName, <<"Low">>, <<"7", ".", "0">>),
    [ Scanned(<<"hostC">>, <<>>, FullName, <<"High">>, <<>>)
        EXCEPT !["CVSS v2.0 Base Score"] = <<"6", ".", "8">>,
               !["Description"] = <<"a", "\n", "\n", "\n", "b">>,
               !["Solution"] = <<"a", "\n", "b", "\n", "\n", "c">> ] }

\* the four findings of the end-to-end scenario, in a scanner export (the
\* scenario names no port: the Port fields are blank)
Example ==
  << Finding(<<"hostA">>, <<"SQLi">>, <<"Critical">>, <<"9", ".", "8">>, <<>>),
     Finding(<<"hostA">>, <<"XSS">>, <<"Medium">>, <<"5", ".", "4">>, <<>>),
     Finding(<<"hostB">>, <<"SQLi">>, <<"Critical">>, <<"9", ".", "1">>, <<>>),
     Finding(<<"hostC">>, <<"Info">>, <<"None">>, <<>>, <<>>) >>

ReportHeaders ==
  { {<<c>> : c \in AllColumns},
    {<<c>> : c \in AllColumns \ {"CVSS v3.0 Base Score", "CVSS v2.0 Base Score"}} }

InitReport ==
  /\ \/ csv_file = CsvFile({<<c>> : c \in AllColumns}, Example)
     \/ \E h \in ReportHeaders, q \in SeqsUpTo(ReportRecords, MaxOther),
           k \in {0, TopIssues + 1} :
          csv_file = CsvFile(h, q \o Pad(k))
  /\ Constructed
  /\ tie_order \in TieOrders
  /\ run = NoRun
  /\ batch = <<>>

SpecReport == InitReport /\ [][NextApi]_vars

----------------------------------------------------------------------------
(* Properties *)

Rows(d) == {d[i] : i \in DOMAIN d}

\* the field of column col in the record that frame row r was read from, as
\* the file holds it; blank when the file has no such column
RawField(r, col) ==
  IF col \in StripColumns(csv_file.header)
  THEN csv_file.records[r.idx + 1][col] ELSE <<>>

AllowedSeverities == {<<"Critical">>, <<"High">>, <<"Medium">>, <<"Low">>}

Cleaned == pc = "cleaned"

\* C1 as stated: for every input load_data accepts, after clean_data every
\* row of self.df has a Risk in {Critical, High, Medium, Low}.
C1_AsStated ==
  Cleaned => \A r \in Rows(df) : r.cells["Risk"] \in AllowedSeverities

\* C1 amended: for every input load_data accepts that has a Risk column,
\* after clean_data every row of self.df has a Risk in {Critical, High,
\* Medium, Low}.
C1_SeverityInvariant ==
  (Cleaned /\ "Risk" \in columns) =>
     \A r \in Rows(df) : r.cells["Risk"] \in AllowedSeverities

\* clean_data has kept a finding of a file that also held a record with a
\* severity outside the set (and a name load_data lets through)
C1_Witness ==
  /\ Cleaned /\ "Risk" \in columns /\ df # <<>>
  /\ \E i \in DOMAIN csv_file.records :
       /\ Strip(csv_file.records[i]["Risk"]) \notin AllowedSeverities
       /\ csv_file.records[i]["Name"] = <<"Info">>

\* the severity label of a loaded row, trimmed (a missing label is the
\* empty string)
TrimmedLabel(r) == Strip(r.cells["Risk"])

KeptBy(d, r) == \E k \in DOMAIN d : d[k].idx = r.idx

\* C2 as stated: clean_data keeps a record if and only if its trimmed
\* severity label is exactly one of Critical, High, Medium, Low.
C2_AsStated ==
  [][(pc = "loaded" /\ pc' = "cleaned") =>
       \A r \in Rows(df) :
          KeptBy(df', r) <=> TrimmedLabel(r) \in AllowedSeverities]_vars

\* C2 amended: on an input with a Risk column, clean_data keeps a record if
\* and only if its trimmed severity label is exactly (case-sensitively) one
\* of Critical, High, Medium, Low; without the column it keeps every record
\* that is not entirely empty.
C2_KeptIffValidLabel ==
  [][(pc = "loaded" /\ pc' = "cleaned") =>
       \A r \in Rows(df) :
          KeptBy(df', r) <=>
             IF "Risk" \in columns
             THEN TrimmedLabel(r) \in AllowedSeverities
             ELSE \E c \in columns : r.cells[c] # <<>>]_vars

\* clean_data has kept the padded ' High ' record and dropped the 'high' one
C2_Witness ==
  /\ Cleaned /\ "Risk" \in columns
  /\ \E i, j \in DOMAIN csv_file.records :
       /\ csv_file.records[i]["Risk"] = <<" ", "High", " ">>
       /\ csv_file.records[j]["Risk"] = <<"high">>
       /\ \E k \in DOMAIN df : df[k].idx = i - 1
       /\ ~ \E k \in DOMAIN df : df[k].idx = j - 1

HasDigit(s) == \E i \in DOMAIN s : s[i] \in DOMAIN DigitValue

\* the number a raw score field parses to, <<>> when it is absent or no number
Parsed(r, col) == ToNumeric(Strip(RawField(r, col)))

\* C3: CVSS_Score is the v3.0 field when that parses as a number, otherwise
\* the v2.0 field when that parses, otherwise unset; a non-numeric field
\* yields neither an error nor zero.
C3_ScoreDerivation ==
  Cleaned =>
    \A r \in Rows(df) :
       LET v3 == RawField(r, "CVSS v3.0 Base Score")
           v2 == RawField(r, "CVSS v2.0 Base Score")
       IN  /\ r.cvss = IF Parsed(r, "CVSS v3.0 Base Score") # <<>>
                       THEN Parsed(r, "CVSS v3.0 Base Score")
                       ELSE Parsed(r, "CVSS v2.0 Base Score")
           /\ (~HasDigit(v3) /\ ~HasDigit(v2)) => r.cvss = <<>>
           /\ (~HasDigit(v3) /\ v2 = <<"6", ".", "5">>) => r.cvss = <<65>>
           /\ v3 = <<"9", ".", "8">> => r.cvss = <<98>>

\* a finding with a non-numeric, non-blank v3.0 field has taken the score of
\* its v2.0 field
C3_Witness ==
  /\ Cleaned
  /\ \E r \in Rows(df) :
       /\ RawField(r, "CVSS v3.0 Base Score") = <<"a", "b">>
       /\ RawField(r, "CVSS v2.0 Base Score") = <<"6", ".", "5">>
       /\ r.cvss = <<65>>

\* the row of self.df a row of a view was made from
DfRow(v) == CHOOSE r \in Rows(df) : r.idx = v.idx

\* the place of the finding with index label idx in self.df
DfPos(idx) == CHOOSE k \in DOMAIN df : df[k].idx = idx

Returned == detailed.status = "returned"

SeverityRank(risk) ==
  CASE risk = <<"Critical">> -> 1
    [] risk = <<"High">> -> 2
    [] risk = <<"Medium">> -> 3
    [] risk = <<"Low">> -> 4
    [] OTHER -> 5

\* C4: the detailed view holds every canonical finding exactly once, ordered
\* by severity rank Critical, High, Medium, Low and then by cvss_score
\* descending, the findings without a score behind the scored ones of the
\* same severity.
C4_DetailedSorted ==
  Returned =>
    LET v == detailed.rows
    IN  /\ Len(v) = Len(df)
        /\ \A r \in Rows(df) : Cardinality({i \in DOMAIN v : v[i].idx = r.idx}) = 1
        /\ \A i, j \in DOMAIN v :
             i < j =>
               LET a == DfRow(v[i])
                   b == DfRow(v[j])
                   ra == SeverityRank(a.cells["Risk"])
                   rb == SeverityRank(b.cells["Risk"])
               IN  /\ ra <= rb
                   /\ (ra = rb /\ a.cvss = <<>>) => b.cvss = <<>>
                   /\ (ra = rb /\ a.cvss # <<>> /\ b.cvss # <<>>)
                         => a.cvss[1] >= b.cvss[1]

\* a view of three findings: two of one severity, the one without a score
\* behind the scored one although it comes first in the canonical set, and
\* one of a lower severity behind both
C4_Witness ==
  /\ Returned /\ Len(detailed.rows) = 3
  /\ LET a == DfRow(detailed.rows[1])
         b == DfRow(detailed.rows[2])
         c == DfRow(detailed.rows[3])
     IN  /\ a.cells["Risk"] = b.cells["Risk"]
         /\ a.cvss # <<>> /\ b.cvss = <<>>
         /\ b.idx < a.idx
         /\ SeverityRank(c.cells["Risk"]) > SeverityRank(b.cells["Risk"])

\* C5: the sort is stable: two findings of equal severity and equal (or both
\* absent) cvss_score stand in the detailed view in the order they have in
\* the canonical set.
C5_StableSort ==
  Returned =>
    \A i, j \in DOMAIN detailed.rows :
       LET a == DfRow(detailed.rows[i])
           b == DfRow(detailed.rows[j])
       IN  (i < j /\ a.cells["Risk"] = b.cells["Risk"] /\ a.cvss = b.cvss)
              => DfPos(a.idx) < DfPos(b.idx)

\* a view in which two findings with equal keys follow a finding that comes
\* after them in the canonical set
C5_Witness ==
  /\ Returned /\ Len(detailed.rows) = 3
  /\ LET a == DfRow(detailed.rows[1])
         b == DfRow(detailed.rows[2])
         c == DfRow(detailed.rows[3])
     IN  /\ b.cells["Risk"] = c.cells["Risk"] /\ b.cvss = c.cvss
         /\ a.idx > c.idx

\* the records load_data handed to clean_data, less the entirely empty ones
LoadedRecords ==
  {i \in DOMAIN csv_file.records :
     /\ csv_file.records[i]["Name"] \notin informational_filters
     /\ \E c \in AllColumns : csv_file.records[i][c] \notin {<<>>, <<"None">>}}

\* C6: when the severity filter has eliminated every record of a non-empty
\* loaded input, create_detailed_report emits the unfiltered record set, not
\* an empty table.
C6_FallbackEmitsUnfiltered ==
  (Returned /\ df = <<>> /\ LoadedRecords # {}) =>
     {detailed.rows[i].idx + 1 : i \in DOMAIN detailed.rows} = LoadedRecords

\* C8: after load_data and clean_data no finding of the canonical set has a
\* cleaned name equal to a denylisted title, also when the raw name differs
\* from the title by surrounding whitespace or double quotes.
C8_NoDenylistedCleanName ==
  Cleaned => \A r \in Rows(df) : r.cells["Name"] \notin informational_filters

\* C9: a row whose Host field or Name field is missing is not in the
\* canonical set after clean_data.
C9_HostAndNameRequired ==
  (Cleaned /\ "Host" \in columns) =>
    \A r \in Rows(df) :
       /\ RawField(r, "Host") # <<>>
       /\ RawField(r, "Name") # <<>>

\* C10: after clean_data every text field of every canonical finding has no
\* leading or trailing whitespace and no double quote.
C10_TextFieldsClean ==
  Cleaned =>
    \A r \in Rows(df) :
       \A c \in {"Name", "Synopsis", "Description", "Solution", "CVE"} \cap columns :
          LET s == r.cells[c]
          IN  /\ \A i \in DOMAIN s : s[i] # "\""
              /\ s # <<>> => (s[1] # " " /\ s[Len(s)] # " ")

----------------------------------------------------------------------------
(* The summary and the views on files that lack a column *)

optional_columns == {"Port", "CVSS v3.0 Base Score", "CVSS v2.0 Base Score", "Risk"}

\* load_data has returned True on a file that lacks an optional column
LacksOptional ==
  /\ pc \in {"loaded", "cleaned", "summarized", "summary_failed"}
  /\ optional_columns \ columns # {}

\* C11: when an optional column (Port, a CVSS score column, Risk) is absent
\* from a file load_data accepts, clean_data, generate_summary and the three
\* view builders all complete: none of them raises.
C11_OptionalColumnsTolerated ==
  LacksOptional =>
    /\ pc # "summary_failed"
    /\ executive.status # "KeyError"
    /\ host_summary.status # "KeyError"
    /\ detailed.status # "KeyError"

----------------------------------------------------------------------------
(* The callers *)

\* the run has a caller: main or the generate handler
InRun == run.mode \in {"cli", "web"}

\* C12: when load_data reports failure (no encoding decodes the file, the
\* parser rejects it, or it has no Name column), the caller stops with that
\* file: main exits, the generate handler goes to the next file, and neither
\* clean_data, generate_summary nor any export or view builder is called.
C12_FailedLoadAborts ==
  (InRun /\ pc = "load_failed") =>
    /\ run.calls = <<"load_data">>
    /\ run.at = IF run.mode = "cli" THEN "exit" ELSE "skipped"
    /\ summary_stats = EmptyDict
    /\ executive = NoView /\ host_summary = NoView /\ detailed = NoView

\* a caller has stopped on a file the parser rejects
C12_Witness ==
  /\ InRun /\ pc = "load_failed"
  /\ csv_file.reads["utf-8"] = "ParserError"
  /\ run.at \in {"exit", "skipped"}

view_calls ==
  {"export_to_csv", "export_to_excel", "export_to_html",
   "create_executive_summary", "create_host_summary", "create_detailed_report"}

\* C14: in every run of main and of the generate handler the calls come in
\* the order load_data, clean_data, generate_summary, exports and views:
\* clean_data only after load_data has returned True, generate_summary only
\* after clean_data, every export and view builder only after
\* generate_summary has returned.
C14_StagesInSequence ==
  InRun =>
    \A i \in DOMAIN run.calls :
      /\ (i = 1) <=> (run.calls[i] = "load_data")
      /\ (i = 2) <=> (run.calls[i] = "clean_data")
      /\ (i = 3) <=> (run.calls[i] = "generate_summary")
      /\ i >= 2 => pc \notin {"new", "load_failed"}
      /\ i >= 3 => pc \notin {"new", "load_failed", "loaded"}
      /\ i >= 4 => run.calls[i] \in view_calls /\ pc = "summarized"

\* a run of the handler that has made all three exports
C14_Witness ==
  /\ run.mode = "web" /\ run.at = "done"
  /\ \A e \in {"export_to_csv", "export_to_excel", "export_to_html"} :
       \E i \in DOMAIN run.calls : run.calls[i] = e

----------------------------------------------------------------------------
(* The encodings *)

\* encoding e did not decode the file
FailsToDecode(e) == csv_file.reads[e] = "UnicodeDecodeError"

LoadOver == pc \in {"loaded", "load_failed"}

\* the attempts made are the first ones of utf-8, latin-1, cp1252, in that
\* order, and each one but the last failed to decode
AttemptsInOrder ==
  /\ Len(attempts) <= 3
  /\ \A i \in DOMAIN attempts : attempts[i] = <<"utf-8", "latin-1", "cp1252">>[i]
  /\ \A i \in DOMAIN attempts : i < Len(attempts) => FailsToDecode(attempts[i])

\* a frame has been read: under the last encoding tried
FirstDecodingUsed ==
  pc \in {"decoded", "loaded"} =>
    attempts # <<>> /\ csv_file.reads[attempts[Len(attempts)]] = "ok"

\* load_data has not ended while an encoding was left after a failure to
\* decode
NextTriedAfterFailure ==
  (LoadOver /\ attempts # <<>> /\ FailsToDecode(attempts[Len(attempts)])) =>
    Len(attempts) = 3 /\ pc = "load_failed"

\* C13: load_data tries utf-8, latin-1, cp1252 in that order, uses the first
\* that decodes and tries none after it; after a failure to decode the next
\* is tried; after at most three attempts it has loaded the records or
\* returned failure, and it always ends.
C13_EncodingsInOrder ==
  /\ [](AttemptsInOrder /\ FirstDecodingUsed /\ NextTriedAfterFailure)
  /\ [][LoadOver => attempts' = attempts]_vars
  /\ <>LoadOver

\* utf-8 failed to decode the file and latin-1 read it
C13_Witness ==
  /\ pc = "loaded"
  /\ attempts = <<"utf-8", "latin-1">>
  /\ Len(df) > 0

----------------------------------------------------------------------------
(* Runs side by side *)

\* what one generator alone comes to on a file: its frame after clean_data,
\* its summary_stats and the views the exports of the formats wanted build
Alone(file, tie, wanted) ==
  LET res == LoadResult(file)
      d == CleanedFrame(res.df, res.columns)
      cols == res.columns \cup {"CVSS_Score"}
      stats == IF SummaryRaises(cols) THEN EmptyDict ELSE SummaryItems(d, cols, tie)
      v == AfterExports(NoViews, Todo(wanted), ExecutiveView(stats),
                        HostSummary(d, cols, tie), DetailedView(d, cols))
  IN  [df |-> d, stats |-> stats, executive |-> v.executive,
       host_summary |-> v.host_summary, detailed |-> v.detailed]

Exported(i) == batch.gens[i].pc = "exported"

\* C15: the statistics and the views a generator of a batch ends with are
\* those a generator alone comes to on the same file, whatever the other
\* files of the batch are and however the stages of the runs are interleaved.
C15_RunsIndependent ==
  \A i \in DOMAIN batch.gens :
    Exported(i) =>
      LET g == batch.gens[i]
          alone == Alone(g.csv_file, tie_order, batch.wanted)
      IN  /\ g.df = alone.df
          /\ batch.dicts[g.stats] = alone.stats
          /\ g.executive = alone.executive
          /\ g.host_summary = alone.host_summary
          /\ g.detailed = alone.detailed

\* two runs on different files, both over, the second summary made between
\* the first run's summary and its views
C15_Witness ==
  /\ DOMAIN batch.gens = Uploads
  /\ \A i \in Uploads : Exported(i)
  /\ batch.gens[1].csv_file # batch.gens[2].csv_file
  /\ batch.dicts[batch.gens[1].stats] # batch.dicts[batch.gens[2].stats]

----------------------------------------------------------------------------
(* generate_summary called again *)

\* C16: whenever generate_summary has been called, a second time after the
\* record set has changed included, summary_stats is what a new generator
\* computes from the record set as it is: no key of an earlier call stays.
C16_SummaryHoldsNoEarlierKey ==
  pc = "summarized" => summary_stats = SummaryItems(df, columns, tie_order)

----------------------------------------------------------------------------
(* The views and the state they are built from *)

ViewBuilt ==
  executive' # executive \/ host_summary' # host_summary \/ detailed' # detailed

\* C17: a call of create_executive_summary, create_host_summary or
\* create_detailed_report leaves self.df (rows, order, columns, values) and
\* summary_stats as they were, and what it returns is set by them alone,
\* whatever views were built before and however often.
C17_ViewsLeaveStateUnchanged ==
  [][ /\ ViewBuilt =>
           df' = df /\ columns' = columns /\ summary_stats' = summary_stats
      /\ executive' # executive => executive' = ExecutiveView(summary_stats)
      /\ host_summary' # host_summary =>
           host_summary' = HostSummary(df, columns, tie_order)
      /\ detailed' # detailed => detailed' = DetailedView(df, columns) ]_vars

\* the three views have been built on a summarized generator with findings
C17_Witness ==
  /\ pc = "summarized"
  /\ Len(df) > 0
  /\ executive.status = "returned"
  /\ host_summary.status = "returned"
  /\ detailed.status = "returned"

----------------------------------------------------------------------------
(* The top tables of generate_summary *)

\* the tables and the column each one counts
top_tables ==
  [most_affected_hosts |-> "Host", top_vulnerabilities |-> "Name",
   common_vulnerable_ports |-> "Port"]

TablesPresent == {t \in DOMAIN top_tables : t \in DOMAIN summary_stats}

\* the values a column holds in self.df, the missing ones apart
KeysOf(col) == {df[i].cells[col] : i \in DOMAIN df} \ {NaN}

\* how many findings of self.df hold value k in column col
Findings(col, k) == Cardinality({i \in DOMAIN df : df[i].cells[col] = k})

\* the place in self.df of the first finding that holds k in column col
FirstSeen(col, k) ==
  CHOOSE i \in DOMAIN df :
    df[i].cells[col] = k /\ \A j \in 1..(i - 1) : df[j].cells[col] # k

Listed(t) == {summary_stats[t][i].key : i \in DOMAIN summary_stats[t]}

\* C19: in the top hosts, names and ports of generate_summary, of two keys
\* of equal count the one that occurs first in self.df is listed first, and
\* where the cut at ten parts two keys of equal count the one that occurs
\* first is the one kept.
C19_TiesByFirstOccurrence ==
  pc = "summarized" =>
    \A t \in TablesPresent :
      LET col == top_tables[t]
          table == summary_stats[t]
      IN  /\ \A i, j \in DOMAIN table :
               (table[i].count = table[j].count
                  /\ FirstSeen(col, table[i].key) < FirstSeen(col, table[j].key))
                 => i < j
          /\ \A i \in DOMAIN table : \A k \in KeysOf(col) \ Listed(t) :
               Findings(col, k) = table[i].count
                 => FirstSeen(col, table[i].key) < FirstSeen(col, k)

Least(a, b) == IF a <= b THEN a ELSE b

\* C20: each top table of generate_summary has min(10, number of distinct
\* keys) entries, gives each listed key the number of findings of self.df
\* that hold it, lists the counts in non-increasing order and leaves out no
\* key of a count greater than a listed one; the port table counts only the
\* findings that have a port.
C20_TopTablesExact ==
  pc = "summarized" =>
    \A t \in TablesPresent :
      LET col == top_tables[t]
          table == summary_stats[t]
      IN  /\ Len(table) = Least(10, Cardinality(KeysOf(col)))
          /\ \A i \in DOMAIN table :
               /\ table[i].key \in KeysOf(col)
               /\ table[i].count = Findings(col, table[i].key)
          /\ \A i, j \in DOMAIN table :
               /\ i < j => table[i].count >= table[j].count
               /\ i # j => table[i].key # table[j].key
          /\ \A i \in DOMAIN table : \A k \in KeysOf(col) \ Listed(t) :
               Findings(col, k) <= table[i].count

\* more hosts than the table keeps, one of them with two findings, and a
\* finding without a port
C20_Witness ==
  /\ pc = "summarized"
  /\ TablesPresent = DOMAIN top_tables
  /\ Cardinality(KeysOf("Host")) > 10
  /\ Len(summary_stats["most_affected_hosts"]) = 10
  /\ summary_stats["most_affected_hosts"][1].count = 2
  /\ \E i \in DOMAIN df : df[i].cells["Port"] = NaN

----------------------------------------------------------------------------
(* The statistics of generate_summary *)

Summarized == pc = "summarized"

\* the sum of the values of a dict
RECURSIVE SumOver(_)
SumOver(f) ==
  IF DOMAIN f = {} THEN 0
  ELSE LET k == CHOOSE x \in DOMAIN f : TRUE
       IN  f[k] + SumOver([x \in DOMAIN f \ {k} |-> f[x]])

\* C21: after generate_summary, by_severity has an item for each severity
\* label that some finding of self.df holds and for no other label, the
\* item is the number of findings with that label (so none is zero), and the
\* items sum to total_findings.
C21_HistogramExact ==
  Summarized =>
    LET by_severity == summary_stats["by_severity"]
    IN  /\ DOMAIN by_severity = KeysOf("Risk")
        /\ \A k \in DOMAIN by_severity :
             by_severity[k] = Findings("Risk", k) /\ by_severity[k] > 0
        /\ SumOver(by_severity) = summary_stats["total_findings"]

\* a summary of findings of two severities or more, one of them held by
\* two findings or more, and one severity held by none
C21_Witness ==
  /\ Summarized
  /\ Cardinality(DOMAIN summary_stats["by_severity"]) >= 2
  /\ \E k \in DOMAIN summary_stats["by_severity"] :
       summary_stats["by_severity"][k] >= 2
  /\ DOMAIN summary_stats["by_severity"] # valid_risks


\* C22: after generate_summary, risk_score is 4 times the number of Critical
\* findings of self.df plus 3 times the High ones plus 2 times the Medium
\* ones plus the Low ones; 0 when self.df has no finding.
C22_WeightedRiskScore ==
  Summarized =>
    summary_stats["risk_score"] =
      4 * Findings("Risk", <<"Critical">>) + 3 * Findings("Risk", <<"High">>)
        + 2 * Findings("Risk", <<"Medium">>) + Findings("Risk", <<"Low">>)

\* a summary of findings of three severities
C22_Witness ==
  /\ Summarized
  /\ Findings("Risk", <<"High">>) >= 1
  /\ Findings("Risk", <<"Low">>) >= 2
  /\ summary_stats["risk_score"] >= 5


cvss_keys == {"avg_cvss", "max_cvss", "high_cvss_count"}

\* the findings of self.df that have a CVSS_Score
Scored == {i \in DOMAIN df : df[i].cvss # NaN}

\* the sum of their scores, in tenths (avg_cvss and max_cvss are in hundredths)
ScoreSum == SumOver([i \in Scored |-> df[i].cvss[1]])

\* C23: after generate_summary, when some finding of self.df has a
\* CVSS_Score, avg_cvss is the mean of the scores there are, rounded to a
\* nearest hundredth, max_cvss is the greatest of them and high_cvss_count is
\* the number of them that are 7.0 or more; when no finding has a score,
\* summary_stats has none of the three.
C23_CvssStatistics ==
  Summarized =>
    IF Scored = {}
    THEN DOMAIN summary_stats \cap cvss_keys = {}
    ELSE LET n == Cardinality(Scored)
             off == n * summary_stats["avg_cvss"] - 10 * ScoreSum
         IN  /\ cvss_keys \subseteq DOMAIN summary_stats
             /\ 2 * off <= n /\ -2 * off <= n
             /\ \E i \in Scored : summary_stats["max_cvss"] = 10 * df[i].cvss[1]
             /\ \A i \in Scored : summary_stats["max_cvss"] >= 10 * df[i].cvss[1]
             /\ summary_stats["high_cvss_count"] =
                  Cardinality({i \in Scored : df[i].cvss[1] >= 70})

\* a summary of a finding that scores exactly 7.0, one that scores less and
\* one without a score, with a mean that is not a whole number of hundredths
C23_Witness ==
  /\ Summarized
  /\ \E i \in Scored : df[i].cvss[1] = 70
  /\ \E i \in Scored : df[i].cvss[1] < 70
  /\ Scored # DOMAIN df
  /\ Cardinality(Scored) * summary_stats["avg_cvss"] # 10 * ScoreSum


----------------------------------------------------------------------------
(* The executive summary *)

section_headers ==
  { <<"Assessment Overview">>, <<"CVSS Metrics">>, <<"Risk Level Distribution">>,
    <<"Most Common Vulnerabilities">> }

\* the executive summary has a row with this label
HasRow(metric) == \E i \in DOMAIN executive.rows : executive.rows[i].Metric = metric

\* the executive summary was built from summary_stats as it is
ExecutiveOfSummary ==
  Summarized /\ executive = ExecutiveView(summary_stats)

\* C24: in the executive summary of a summarized generator, the section
\* 'CVSS Metrics' is there only when some finding has a CVSS_Score,
\* 'Risk Level Distribution' only when some finding has a severity and 'Most
\* Common Vulnerabilities' only when some finding has a name; and every
\* section header has a data row right beneath it.
C24_EmptySectionsOmitted ==
  ExecutiveOfSummary =>
    /\ HasRow(<<"CVSS Metrics">>) => Scored # {}
    /\ HasRow(<<"Risk Level Distribution">>) => KeysOf("Risk") # {}
    /\ HasRow(<<"Most Common Vulnerabilities">>) => KeysOf("Name") # {}
    /\ \A i \in DOMAIN executive.rows :
         executive.rows[i].Metric \in section_headers =>
           /\ i < Len(executive.rows)
           /\ executive.rows[i + 1].Metric # <<>>


\* the row of the executive summary that has this label
Pos(metric) ==
  CHOOSE i \in DOMAIN executive.rows : executive.rows[i].Metric = metric

\* the sections in the order they are to come
section_order ==
  << <<"Assessment Overview">>, <<"CVSS Metrics">>, <<"Risk Level Distribution">>,
     <<"Most Common Vulnerabilities">> >>

\* the severities in the order their rows are to come
severity_order == << <<"Critical">>, <<"High">>, <<"Medium">>, <<"Low">> >>

\* the rows of the severity distribution, as the severity each one is for
SeverityOfRow ==
  LET rows == executive.rows
      risk_rows == {i \in DOMAIN rows :
                      \E k \in DOMAIN severity_order :
                        rows[i].Metric = severity_order[k] \o <<" ", "Risk">>}
  IN  [i \in risk_rows |->
         CHOOSE k \in DOMAIN severity_order :
           rows[i].Metric = severity_order[k] \o <<" ", "Risk">>]

\* a name as the summary is to show it (the names longer than 60 characters
\* are made of one-character atoms)
Shown(name) ==
  IF StrLen(name) <= 60 THEN name
  ELSE SubSeq(name, 1, 60) \o <<".", ".", ".">>

\* C25: the executive summary of a summarized generator starts with the
\* overview, and its sections come in the order overview, CVSS metrics,
\* severity distribution, most common vulnerabilities; the rows of the
\* severity distribution come in the order Critical, High, Medium, Low, one
\* for each severity that has findings; the last section lists the first 5
\* entries of top_vulnerabilities (all of them when there are fewer), each
\* name longer than 60 characters as its first 60 characters and '...', each
\* other name as it is.
C25_ExecutiveLayout ==
  ExecutiveOfSummary =>
    LET rows == executive.rows
        top == summary_stats["top_vulnerabilities"]
        n == Least(5, Len(top))
    IN  /\ rows[1].Metric = section_order[1]
        /\ \A a, b \in DOMAIN section_order :
             (a < b /\ HasRow(section_order[a]) /\ HasRow(section_order[b]))
               => Pos(section_order[a]) < Pos(section_order[b])
        /\ \A i, j \in DOMAIN SeverityOfRow :
             i < j => SeverityOfRow[i] < SeverityOfRow[j]
        /\ \A i \in DOMAIN SeverityOfRow :
             /\ Pos(<<"Risk Level Distribution">>) < i
             /\ i < Pos(<<"Most Common Vulnerabilities">>)
             /\ rows[i].Value = Findings("Risk", severity_order[SeverityOfRow[i]])
        /\ \A k \in DOMAIN severity_order :
             Findings("Risk", severity_order[k]) > 0
               => \E i \in DOMAIN SeverityOfRow : SeverityOfRow[i] = k
        /\ Len(rows) = Pos(<<"Most Common Vulnerabilities">>) + n
        /\ \A j \in 1..n :
             LET row == rows[Pos(<<"Most Common Vulnerabilities">>) + j]
             IN  row.Metric = Shown(top[j].key) /\ row.Value = top[j].count

\* an executive summary with its four sections, of findings of two
\* severities or more and more than 5 names, that shows a name of 61
\* characters cut and a name of 60 characters whole
C25_Witness ==
  /\ ExecutiveOfSummary
  /\ \A k \in DOMAIN section_order : HasRow(section_order[k])
  /\ Cardinality(DOMAIN SeverityOfRow) >= 2
  /\ Len(summary_stats["top_vulnerabilities"]) > 5
  /\ Len(executive.rows) = Pos(<<"Most Common Vulnerabilities">>) + 5
  /\ HasRow(SubSeq(LongName, 1, 60) \o <<".", ".", ".">>)
  /\ HasRow(FullName)


----------------------------------------------------------------------------
(* The host summary *)

\* the findings of self.df on one host
OnHost(host) == {i \in DOMAIN df : df[i].cells["Host"] = host}

\* the ports of those findings as the file gives them, and how many of the
\* findings are on a port
PortsOn(host) == {RawField(df[i], "Port") : i \in OnHost(host)} \ STR_NA_VALUES

CountOn(host, port) ==
  Cardinality({i \in OnHost(host) : RawField(df[i], "Port") = port})

\* port(count) for each port of the list, joined by ', '
RECURSIVE Joined(_, _)
Joined(host, ports) ==
  IF ports = <<>> THEN <<>>
  ELSE LET item == ports[1] \o <<"(">> \o IntText(CountOn(host, ports[1])) \o <<")">>
       IN  IF Len(ports) = 1 THEN item
           ELSE item \o <<",", " ">> \o Joined(host, Tail(ports))

\* the lists of the 3 most frequent ports of a host (all of them when it has
\* fewer), most frequent first
TopPortLists(host) ==
  LET n == Least(3, Cardinality(PortsOn(host)))
  IN  {l \in [1..n -> PortsOn(host)] :
         /\ \A a, b \in 1..n : a < b =>
              l[a] # l[b] /\ CountOn(host, l[a]) >= CountOn(host, l[b])
         /\ \A a \in 1..n : \A p \in PortsOn(host) \ {l[b] : b \in 1..n} :
              CountOn(host, p) <= CountOn(host, l[a])}

\* C26: create_host_summary on a cleaned generator returns one row for each
\* host that a finding of self.df is on and no other row, the rows in
\* ascending order of host; a row gives the number of findings on its host,
\* the number for each of Critical, High, Medium and Low, the greatest
\* CVSS_Score among them or 'N/A' when none has one, and the 3 most frequent
\* ports of the host as port(count) joined by ', '.
C26_HostSummaryRows ==
  host_summary.status # "none" =>
    LET rows == host_summary.rows
    IN  /\ host_summary.status = "returned"
        /\ {rows[i].Host : i \in DOMAIN rows} = KeysOf("Host")
        /\ \A i, j \in DOMAIN rows : i < j => StrLess(rows[i].Host, rows[j].Host)
        /\ \A i \in DOMAIN rows :
             LET on == OnHost(rows[i].Host)
                 scored == on \cap Scored
                 of(risk) == Cardinality({k \in on : df[k].cells["Risk"] = risk})
             IN  /\ rows[i].Total = Cardinality(on)
                 /\ rows[i].Critical = of(<<"Critical">>)
                 /\ rows[i].High = of(<<"High">>)
                 /\ rows[i].Medium = of(<<"Medium">>)
                 /\ rows[i].Low = of(<<"Low">>)
                 /\ IF scored = {} THEN rows[i].HighestCVSS = <<"N/A">>
                    ELSE /\ \E k \in scored : rows[i].HighestCVSS = df[k].cvss
                         /\ \A k \in scored : rows[i].HighestCVSS[1] >= df[k].cvss[1]
                 /\ \E l \in TopPortLists(rows[i].Host) :
                      rows[i].CommonPorts = Joined(rows[i].Host, l)


----------------------------------------------------------------------------
(* The detailed view: free text and the score shown *)

\* s without the line breaks it starts with
RECURSIVE PastBreaks(_)
PastBreaks(s) ==
  IF s # <<>> /\ s[1] = "\n" THEN PastBreaks(Tail(s)) ELSE s

\* s with each run of line breaks turned into one space
RECURSIVE OneSpacePerRun(_)
OneSpacePerRun(s) ==
  IF s = <<>> THEN <<>>
  ELSE IF s[1] = "\n" THEN <<" ">> \o OneSpacePerRun(PastBreaks(s))
       ELSE <<s[1]>> \o OneSpacePerRun(Tail(s))

\* C27: in the detailed view, Solution is the solution of the finding with
\* each run of line breaks turned into one space, and Description is the
\* description treated the same way and then, when that is longer than 500
\* characters, cut to its first 500 characters followed by '...'; no
\* Description is longer than 503 characters.
C27_FreeTextCollapsed ==
  Returned =>
    \A v \in Rows(detailed.rows) :
      /\ "Solution" \in DOMAIN v.cells =>
           v.cells["Solution"] = OneSpacePerRun(DfRow(v).cells["Solution"])
      /\ "Description" \in DOMAIN v.cells =>
           LET text == OneSpacePerRun(DfRow(v).cells["Description"])
           IN  /\ v.cells["Description"] =
                    IF Len(text) > 500
                    THEN SubSeq(text, 1, 500) \o <<".", ".", ".">>
                    ELSE text
               /\ Len(v.cells["Description"]) <= 503


----------------------------------------------------------------------------
(* The end-to-end scenario *)

ExampleFile == CsvFile({<<c>> : c \in AllColumns}, Example)

\* host, name and CVSS_Score of the rows of the detailed view, in order (the
\* score of a row is the one of the finding of self.df it shows)
DetailedOrder ==
  [i \in DOMAIN detailed.rows |->
     << detailed.rows[i].cells["Host"], detailed.rows[i].cells["Name"],
        DfRow(detailed.rows[i]).cvss >>]

\* host and counts of the rows of the host summary, in order
HostCounts ==
  [i \in DOMAIN host_summary.rows |->
     LET row == host_summary.rows[i]
     IN  <<row.Host, row.Total, row.Critical, row.High, row.Medium, row.Low>>]

\* C28: on the file of the four findings (hostA, SQLi, Critical, 9.8),
\* (hostA, XSS, Medium, 5.4), (hostB, SQLi, Critical, 9.1), (hostC, Info,
\* None, no score), clean_data leaves the first three; generate_summary gives
\* the histogram {Critical: 2, Medium: 1} and the average 8.1; the detailed
\* view is hostA/SQLi(9.8), hostB/SQLi(9.1), hostA/XSS(5.4) in this order;
\* the host summary has the two rows hostA (1 Critical, 1 Medium) and hostB
\* (1 Critical).
C28_EndToEndScenario ==
  csv_file = ExampleFile =>
    /\ pc \in {"cleaned", "summarized"} =>
         /\ Len(df) = 3
         /\ \A i \in DOMAIN df : df[i].cells["Host"] # <<"hostC">>
    /\ Summarized =>
         /\ summary_stats["by_severity"] = (<<"Critical">> :> 2 @@ <<"Medium">> :> 1)
         /\ summary_stats["avg_cvss"] = 810
    /\ Returned =>
         DetailedOrder = << <<<<"hostA">>, <<"SQLi">>, <<98>>>>,
                            <<<<"hostB">>, <<"SQLi">>, <<91>>>>,
                            <<<<"hostA">>, <<"XSS">>, <<54>>>> >>
    /\ host_summary.status # "none" =>
         /\ host_summary.status = "returned"
         /\ HostCounts = << <<<<"hostA">>, 2, 1, 0, 1, 0>>,
                            <<<<"hostB">>, 1, 1, 0, 0, 0>> >>

\* the scenario run to its end: summary and the three views
C28_Witness ==
  /\ csv_file = ExampleFile
  /\ Summarized
  /\ Returned
  /\ host_summary.status = "returned"
  /\ executive.status = "returned"


\* C29: in the detailed view, the 'CVSS Score' of a finding is its
\* CVSS_Score: a text that reads as that number when the finding has one,
\* nothing when it has none, and never the text 'nan'.
C29_ShownScoreIsSortKey ==
  Returned =>
    \A v \in Rows(detailed.rows) :
      "CVSS Score" \in DOMAIN v.cells =>
        LET shown == v.cells["CVSS Score"]
            score == DfRow(v).cvss
        IN  /\ shown # <<"nan">>
            /\ IF score = NaN THEN shown = NaN ELSE ToNumeric(shown) = score


----------------------------------------------------------------------------
(* Counts across the statistics and the views *)

\* C30: on a summarized generator, total_findings = security_findings = the
\* sum of the counts of by_severity; once the detailed view is built it has
\* that many rows; once the host summary is built its 'Total Issues' sum to
\* that number, it has hosts_with_issues = total_hosts rows, and 'Total
\* Issues' of each row is its Critical + High + Medium + Low; and the file
\* holds at least as many records as load_data keeps, which are at least as
\* many as clean_data keeps.
C30_CountsConserved ==
  Summarized =>
    LET total == summary_stats["total_findings"]
        hosts == host_summary.rows
    IN  /\ total = summary_stats["security_findings"]
        /\ total = SumOver(summary_stats["by_severity"])
        /\ detailed.status # "none" => Returned /\ Len(detailed.rows) = total
        /\ {"total_hosts", "hosts_with_issues"} \subseteq DOMAIN summary_stats =>
             summary_stats["hosts_with_issues"] = summary_stats["total_hosts"]
        /\ host_summary.status # "none" =>
             /\ host_summary.status = "returned"
             /\ SumOf([i \in DOMAIN hosts |-> hosts[i].Total]) = total
             /\ "total_hosts" \in DOMAIN summary_stats =>
                  Len(hosts) = summary_stats["total_hosts"]
             /\ \A i \in DOMAIN hosts :
                  hosts[i].Total = hosts[i].Critical + hosts[i].High
                                     + hosts[i].Medium + hosts[i].Low
        /\ Len(csv_file.records) >= Len(LoadResult(csv_file).df)
        /\ Len(LoadResult(csv_file).df) >= Len(df)

----------------------------------------------------------------------------
(* The generator with its summary and its three views on files that hold   *)
(* informational records: titles of the denylist, of any severity, on a    *)
(* host of other findings and on a host of their own                       *)

\* how many records such a file holds
MaxNoise == 3

NoiseRecords ==
  { Scanned(<<"hostA">>, <<"4", "4", "3">>, <<"Nessus Scan Information">>,
            <<"Critical">>, <<"9", ".", "8">>),
    Scanned(<<"hostC">>, <<"2", "2">>, <<"Service Detection">>, <<"High">>, <<>>),
    Scanned(<<"hostA">>, <<"8", "0">>, <<"SQLi">>, <<"High">>, <<"8", ".", "0">>),
    Scanned(<<"hostB">>, <<"8", "0">>, <<"XSS">>, <<"Medium">>, <<"5", ".", "4">>) }

InitNoise ==
  /\ \E q \in SeqsUpTo(NoiseRecords, MaxNoise) :
       csv_file = CsvFile({<<c>> : c \in AllColumns}, q)
  /\ Constructed
  /\ tie_order \in TieOrders
  /\ run = NoRun
  /\ batch = <<>>

SpecNoise == InitNoise /\ [][NextApi]_vars

\* the records of the file whose name is exactly a title of the denylist
NoiseIn == {i \in DOMAIN csv_file.records :
              csv_file.records[i]["Name"] \in informational_filters}

\* the records of the file that are findings: not informational, and of an
\* allowed severity
Counted ==
  {i \in DOMAIN csv_file.records \ NoiseIn :
     Strip(csv_file.records[i]["Risk"]) \in AllowedSeverities}

\* the findings of the file that hold value in column col
CountedWith(col, value) == {i \in Counted : csv_file.records[i][col] = value}

\* the findings of the file on a port with the number of this text
CountedOnPort(S, text) ==
  {i \in S : /\ csv_file.records[i]["Port"] \notin STR_NA_VALUES
             /\ ToNumeric(csv_file.records[i]["Port"]) = ToNumeric(text)}

\* every entry of a top table counts the findings of the file with its key
TableOfCounted(table, col) ==
  \A k \in DOMAIN table :
    /\ table[k].count > 0
    /\ table[k].count = Cardinality(CountedWith(col, table[k].key))

\* port(count), joined by ', ', for the ports of list l among the findings S
RECURSIVE PortItems(_, _)
PortItems(S, l) ==
  IF l = <<>> THEN <<>>
  ELSE LET item == l[1] \o <<"(">>
                     \o IntText(Cardinality(CountedOnPort(S, l[1]))) \o <<")">>
       IN  IF Len(l) = 1 THEN item ELSE item \o <<",", " ">> \o PortItems(S, Tail(l))

\* the port lists a host row may show for the findings S: their 3 most
\* frequent ports (all of them when there are fewer), each once
PortListsOf(S) ==
  LET ports == {csv_file.records[i]["Port"] : i \in S} \ STR_NA_VALUES
      n == Least(3, Cardinality(ports))
  IN  {l \in [1..n -> ports] : \A a, b \in 1..n : a < b => l[a] # l[b]}

\* the CVSS scores of the findings of the file, in hundredths
CountedScores ==
  {10 * ToNumeric(csv_file.records[i]["CVSS v3.0 Base Score"])[1] :
     i \in {j \in Counted :
              ToNumeric(csv_file.records[j]["CVSS v3.0 Base Score"]) # <<>>}}

\* C7: a record whose raw name is exactly a title of the denylist is removed
\* by load_data, whatever its severity, and is in none of the outputs: it is
\* no row of self.df after load_data or clean_data and no row of the detailed
\* view; the summary statistics count the findings of the file without it
\* (totals, severity histogram, top hosts, top names, top ports, highest
\* score) and hold no denylisted title; the executive summary shows no
\* denylisted title and the numbers without it; the host summary has a row
\* only for a host of some other finding, with the counts and the ports of
\* the other findings.
C7_DenylistedNeverPresent ==
  /\ pc \notin {"new", "load_failed"} =>
       \A r \in Rows(df) : r.idx + 1 \notin NoiseIn
  /\ \A r \in Rows(detailed.rows) :
       r.idx + 1 \notin NoiseIn /\ r.cells["Name"] \notin informational_filters
  /\ Summarized =>
       /\ summary_stats["total_findings"] = Cardinality(Counted)
       /\ summary_stats["security_findings"] = Cardinality(Counted)
       /\ \A k \in DOMAIN summary_stats["by_severity"] :
            summary_stats["by_severity"][k] = Cardinality(CountedWith("Risk", k))
       /\ summary_stats["hosts_with_issues"]
            = Cardinality({csv_file.records[i]["Host"] : i \in Counted})
       /\ TableOfCounted(summary_stats["most_affected_hosts"], "Host")
       /\ TableOfCounted(summary_stats["top_vulnerabilities"], "Name")
       /\ \A k \in DOMAIN summary_stats["top_vulnerabilities"] :
            summary_stats["top_vulnerabilities"][k].key \notin informational_filters
       /\ \A k \in DOMAIN summary_stats["common_vulnerable_ports"] :
            LET entry == summary_stats["common_vulnerable_ports"][k]
            IN  /\ entry.count > 0
                /\ entry.count = Cardinality(CountedOnPort(Counted, entry.key))
       /\ "max_cvss" \in DOMAIN summary_stats =>
            summary_stats["max_cvss"] \in CountedScores
  /\ \A i \in DOMAIN executive.rows :
       LET row == executive.rows[i]
       IN  /\ row.Metric \notin informational_filters
           /\ \A k \in AllowedSeverities :
                row.Metric = k \o <<" ", "Risk">> =>
                  row.Value = Cardinality(CountedWith("Risk", k))
           /\ row.Metric = <<"Highest CVSS Score">> => row.Value \in CountedScores
           /\ (HasRow(<<"Risk Level Distribution">>)
                 /\ row.Metric
                      \in {<<"Total Findings">>, <<"Security-Relevant Findings">>})
                => row.Value = Cardinality(Counted)
  /\ host_summary.status # "none" =>
       LET rows == host_summary.rows
       IN  /\ host_summary.status = "returned"
           /\ {rows[i].Host : i \in DOMAIN rows}
                = {csv_file.records[i]["Host"] : i \in Counted}
           /\ \A i \in DOMAIN rows :
                LET on == CountedWith("Host", rows[i].Host)
                    of(risk) == Cardinality(on \cap CountedWith("Risk", risk))
                IN  /\ rows[i].Total = Cardinality(on)
                    /\ rows[i].Critical = of(<<"Critical">>)
                    /\ rows[i].High = of(<<"High">>)
                    /\ rows[i].Medium = of(<<"Medium">>)
                    /\ rows[i].Low = of(<<"Low">>)
                    /\ \E l \in PortListsOf(on) :
                         rows[i].CommonPorts = PortItems(on, l)

\* the summary and the three views are there for a file that holds a
\* Critical record named exactly 'Nessus Scan Information' on a host of
\* another finding, and a denylisted record on a host of its own
C7_Witness ==
  /\ Summarized
  /\ HasRow(<<"Most Common Vulnerabilities">>)
  /\ host_summary.status = "returned" /\ host_summary.rows # <<>>
  /\ Returned /\ detailed.rows # <<>>
  /\ \E i \in NoiseIn, j \in Counted :
       /\ csv_file.records[i]["Name"] = <<"Nessus Scan Information">>
       /\ csv_file.records[i]["Risk"] = <<"Critical">>
       /\ csv_file.records[i]["Host"] = csv_file.records[j]["Host"]
  /\ \E i \in NoiseIn : CountedWith("Host", csv_file.records[i]["Host"]) = {}

====
